---- MODULE Spec2Model ----
(***************************************************************************)
(* A model of the conversation engine of yagi (package engine): the tool   *)
(* registry, the retrying request runner Engine.chat, the tool execution   *)
(* coordinator Engine.executeToolsConcurrently, the context compressor     *)
(* Engine.compressContext and the orchestrator loop Engine.Chat (Spec);    *)
(* and, each taken on its own, Engine.ExecuteTool (ExecSpec), the stream   *)
(* assembler Engine.processStreamResponse (StreamSpec) and                 *)
(* Engine.compressContext on arbitrary logs (CompressSpec).                *)
(*                                                                         *)
(* The backing chat API, the approver and the tool handlers are the        *)
(* environment: their answers are drawn from small sets.  The variables    *)
(* declared as history record what the environment answered and which      *)
(* collaborators were called; the program never reads them.                *)
(***************************************************************************)
EXTENDS Integers, Sequences, FiniteSets, TLC

VARIABLES
    e,          \* the Engine value built by New and RegisterTool
    opts,       \* the ChatOptions of the running Chat call
    cancelled,  \* ctx.Err() != nil
    pc,         \* position of Engine.Chat: "start", "compress", "request", "tools", "done"
    messages,   \* the local variable messages of Engine.Chat
    iteration,  \* the local variable iteration of Engine.Chat
    rpc,        \* position of Engine.chat: "idle", "check", "wait", "create", "stream"
    attempt,    \* the loop variable attempt of Engine.chat
    lastErr,    \* the local variable lastErr of Engine.chat
    toolCalls,  \* the batch handed to executeToolsConcurrently
    gstate,     \* per goroutine of the batch: "ready", "running", "done"
    results,    \* the slice results of executeToolsConcurrently
    ret,        \* what Engine.Chat returned: [returned, text, msgs, err]
    seed,       \* history: the log Chat was called with
    turns,      \* history: the result of every successful model turn
    outs,       \* history: per finished batch, its completion order and results
    order,      \* history: the goroutine indices of the batch, in completion order
    produced,   \* history: what the goroutine of each call computed
    invoked,    \* history: approver and handler invocations, <<kind, tool name>>
    runner,     \* history of the current Engine.chat call
    hist,       \* history flags of the Chat call
    xt,         \* a call of Engine.ExecuteTool taken on its own
    sp,         \* a run of Engine.processStreamResponse taken on its own
    cc,         \* a call of Engine.compressContext taken on its own
    lk,         \* goroutines using the engine's client, model and registry at once
    il,         \* the interactive loop of the CLI and its interrupt handler
    tm,         \* a call of truncateMessages taken on its own
    nw,         \* a call of New taken on its own
    io,         \* the STDIO loop of the CLI: the line being served and its responses
    ap,         \* a batch of the CLI's executeTool calls and the approval records
    mm          \* concurrent calls of setMemory and deleteMemory and the memory file

chatVars   == <<pc, messages, iteration, ret>>
runnerVars == <<rpc, attempt, lastErr, runner>>
batchVars  == <<toolCalls, gstate, results, order, produced>>
histVars   == <<seed, turns, outs, invoked, hist>>
lastUnits  == <<io, ap, mm>>
lateUnits  == <<lk, il, tm, nw, lastUnits>>
unitVars   == <<xt, sp, cc, lateUnits>>
vars == <<e, opts, cancelled, chatVars, runnerVars, batchVars, histVars, unitVars>>

-----------------------------------------------------------------------------
(* Bounds of the model.                                                    *)

MaxRetriesBound == 2     \* Config.MaxRetries is drawn from 1..MaxRetriesBound
MaxIterBound == 2        \* Config.MaxAutonomousIter is drawn from 1..MaxIterBound
MaxBatch == 2            \* a model turn requests at most MaxBatch tool calls
MaxTurns == 2            \* at most MaxTurns model turns of one Chat request tools
SmallThreshold == 4      \* the small Config.CompressThreshold (characters)
SmallContext == 8        \* the small Config.MaxContextChars (characters)
MaxIndex == 2            \* tool-call deltas carry position indices 0..MaxIndex
MaxTrail == 2            \* at most MaxTrail chunks of a stream carry no tool-call delta
MaxLog == 5              \* compressContext is given logs of at most MaxLog messages

(* Defaults of New.                                                        *)
DefaultMaxRetries == 3
DefaultMaxAutonomousIter == 20
DefaultCompressThreshold == 80000
DefaultMaxContextChars == 100000

-----------------------------------------------------------------------------
(* Messages, tool calls, errors.                                           *)

NoCalls == <<>>

Msg(role, content, calls, id) ==
    [role |-> role, content |-> content, toolCalls |-> calls, toolCallID |-> id]

UserMsg(c)      == Msg("user", c, NoCalls, "")
SystemMsg(c)    == Msg("system", c, NoCalls, "")
AssistantMsg(c) == Msg("assistant", c, NoCalls, "")
AssistantCalls(calls) == Msg("assistant", "", calls, "")
ToolMsg(c, id)  == Msg("tool", c, NoCalls, id)

Call(id, name, args) == [id |-> id, name |-> name, args |-> args]

\* A Go error value: its message and the message of the error it wraps.
NilErr == [msg |-> "", wraps |-> ""]
PlainErr(m) == [msg |-> m, wraps |-> ""]
CanceledErr == PlainErr("context canceled")

RECURSIVE Concat(_)
Concat(ss) == IF ss = <<>> THEN "" ELSE Head(ss) \o Concat(Tail(ss))

RECURSIVE Join(_, _)
Join(ss, sep) ==
    IF ss = <<>> THEN ""
    ELSE IF Len(ss) = 1 THEN Head(ss)
    ELSE Head(ss) \o sep \o Join(Tail(ss), sep)

RECURSIVE Flatten(_)
Flatten(seqs) == IF seqs = <<>> THEN <<>> ELSE Head(seqs) \o Flatten(Tail(seqs))

-----------------------------------------------------------------------------
(* New and the tool registry.                                              *)

\* A faulty variant of New: only a negative value is replaced by the default.
NewKeepsZero(cfg) ==
    [ maxRetries        |-> IF cfg.MaxRetries < 0 THEN DefaultMaxRetries
                            ELSE cfg.MaxRetries,
      maxAutonomousIter |-> IF cfg.MaxAutonomousIter < 0 THEN DefaultMaxAutonomousIter
                            ELSE cfg.MaxAutonomousIter,
      compressThreshold |-> IF cfg.CompressThreshold < 0 THEN DefaultCompressThreshold
                            ELSE cfg.CompressThreshold,
      maxContextChars   |-> IF cfg.MaxContextChars < 0 THEN DefaultMaxContextChars
                            ELSE cfg.MaxContextChars,
      approver          |-> cfg.Approver,
      tools             |-> <<>>,
      toolFuncs         |-> {},
      toolMeta          |-> {} ]

New(cfg) ==
    [ maxRetries        |-> IF cfg.MaxRetries <= 0 THEN DefaultMaxRetries
                            ELSE cfg.MaxRetries,
      maxAutonomousIter |-> IF cfg.MaxAutonomousIter <= 0 THEN DefaultMaxAutonomousIter
                            ELSE cfg.MaxAutonomousIter,
      compressThreshold |-> IF cfg.CompressThreshold <= 0 THEN DefaultCompressThreshold
                            ELSE cfg.CompressThreshold,
      maxContextChars   |-> IF cfg.MaxContextChars <= 0 THEN DefaultMaxContextChars
                            ELSE cfg.MaxContextChars,
      approver          |-> cfg.Approver,
      tools             |-> <<>>,
      toolFuncs         |-> {},
      toolMeta          |-> {} ]

\* toolMeta is kept as the set of <<name, safe>> pairs of the map.
RegisterTool(eng, name, safe) ==
    [eng EXCEPT !.tools     = Append(@, name),
                !.toolFuncs = @ \cup {name},
                !.toolMeta  = {p \in @ : p[1] # name} \cup {<<name, safe>>}]

IsSafe(eng, name) == <<name, TRUE>> \in eng.toolMeta

\* Engine.toolAlts, the static table of New.
ToolAlts ==
    [ web_search   |-> <<"fetch_url">>,
      fetch_url    |-> <<"web_search">>,
      read_file    |-> <<"list_files", "glob", "search_files">>,
      edit_file    |-> <<"write_file", "read_file">>,
      write_file   |-> <<"edit_file">>,
      delete_file  |-> <<"list_files">>,
      list_files   |-> <<"glob", "search_files">>,
      glob         |-> <<"list_files", "search_files">>,
      search_files |-> <<"glob", "read_file">>,
      run_command  |-> <<"read_file", "write_file">> ]

\* A faulty variant of suggestAlternatives: every alternative of the table is
\* listed, registered or not.
suggestAlternativesAll(eng, name) ==
    IF name \notin DOMAIN ToolAlts THEN ""
    ELSE " (alternatives: " \o Join(ToolAlts[name], ", ") \o ")"

\* The suffix of a handler error: the registered alternatives, in table order.
suggestAlternatives(eng, name) ==
    IF name \notin DOMAIN ToolAlts THEN ""
    ELSE LET available == SelectSeq(ToolAlts[name], LAMBDA a : a \in eng.toolFuncs)
         IN  IF Len(available) = 0 THEN ""
             ELSE " (alternatives: " \o Join(available, ", ") \o ")"

-----------------------------------------------------------------------------
(* Engine.executeTool.  The approver's answer and the handler's return     *)
(* value come from the environment.                                        *)

ApproverAnswers == {"yes", "no", "err"}

\* A faulty variant of executeToolPre: no lookup, an unknown name is treated as a registered tool.
executeToolPreNoLookup(eng, name, args, answer) ==
    IF ~IsSafe(eng, name) /\ eng.approver /\ answer # "yes"
    THEN [proceed |-> FALSE, asked |-> TRUE,
          output |-> "Error: Tool not approved by user", isError |-> TRUE]
    ELSE [proceed |-> TRUE, asked |-> ~IsSafe(eng, name) /\ eng.approver,
          output |-> "", isError |-> FALSE]

\* A faulty variant of executeToolPre: the approver's answer is not looked at.
executeToolPreIgnoresAnswer(eng, name, args, answer) ==
    IF name \notin eng.toolFuncs
    THEN [proceed |-> FALSE, asked |-> FALSE,
          output |-> "Unknown tool: " \o name, isError |-> TRUE]
    ELSE [proceed |-> TRUE, asked |-> ~IsSafe(eng, name) /\ eng.approver,
          output |-> "", isError |-> FALSE]

\* The part of executeTool before the handler call: the lookup and the approval.
\* proceed: the handler is to be called; asked: the approver was consulted.
executeToolPre(eng, name, args, answer) ==
    IF name \notin eng.toolFuncs
    THEN [proceed |-> FALSE, asked |-> FALSE,
          output |-> "Unknown tool: " \o name, isError |-> TRUE]
    ELSE IF ~IsSafe(eng, name) /\ eng.approver
    THEN IF answer = "err"
         THEN [proceed |-> FALSE, asked |-> TRUE,
               output |-> "Error: approval failed: " \o "approver down", isError |-> TRUE]
         ELSE IF answer = "no"
         THEN [proceed |-> FALSE, asked |-> TRUE,
               output |-> "Error: Tool not approved by user", isError |-> TRUE]
         ELSE [proceed |-> TRUE, asked |-> TRUE, output |-> "", isError |-> FALSE]
    ELSE [proceed |-> TRUE, asked |-> FALSE, output |-> "", isError |-> FALSE]

\* The part of executeTool after the handler returned (out, err); err = "" is nil.
executeToolPost(eng, name, h) ==
    IF h.err # ""
    THEN [output |-> "Error: " \o h.err \o suggestAlternatives(eng, name), isError |-> TRUE]
    ELSE [output |-> h.out, isError |-> FALSE]

\* The registered handlers: echo returns "result:" + arguments and never fails;
\* the other tools succeed or fail as the environment decides.
HandlerReturns(name, args) ==
    IF name = "echo" THEN {[out |-> "result:" \o args, err |-> ""]}
    ELSE {[out |-> "out", err |-> ""], [out |-> "", err |-> "boom"]}

toolResult(id, r) == [id |-> id, output |-> r.output, isError |-> r.isError]

NoResult == [id |-> "", output |-> "", isError |-> FALSE]

\* A faulty variant of StoreResult: results = append(results, ...), the results in completion order.
StoreResultAppended(res, i, r) ==
    [res EXCEPT ![1 + Cardinality({k \in DOMAIN res : res[k] # NoResult})] = r]

\* results[i] = toolResult{...} in the goroutine of call i.
StoreResult(res, i, r) == [res EXCEPT ![i] = r]

\* A faulty variant of BuildToolMsgs: the messages carry no ToolCallID.
BuildToolMsgsNoId(res) == [i \in 1..Len(res) |-> ToolMsg(res[i].output, "")]

\* The loop of executeToolsConcurrently that turns results into messages.
BuildToolMsgs(res) == [i \in 1..Len(res) |-> ToolMsg(res[i].output, res[i].id)]

-----------------------------------------------------------------------------
(* Engine.estimateChars and Engine.compressContext.                        *)

RECURSIVE SumArgs(_)
SumArgs(calls) == IF calls = <<>> THEN 0 ELSE Len(Head(calls).args) + SumArgs(Tail(calls))

msgChars(m) == Len(m.content) + SumArgs(m.toolCalls)

RECURSIVE estimateChars(_)
estimateChars(msgs) ==
    IF msgs = <<>> THEN 0 ELSE msgChars(Head(msgs)) + estimateChars(Tail(msgs))

\* Go slices messages[a:b] and messages[a:] with 0-based bounds.
Slice(msgs, a, b) == SubSeq(msgs, a + 1, b)
SliceFrom(msgs, a) == SubSeq(msgs, a + 1, Len(msgs))

\* A faulty variant of CompressStart: the span starts at the first message.
CompressStartZero(msgs) == 0

\* start: the index after the first system message, 0 when there is none.
CompressStart(msgs) ==
    IF \E i \in 1..Len(msgs) : msgs[i].role = "system"
    THEN CHOOSE i \in 1..Len(msgs) :
            /\ msgs[i].role = "system"
            /\ \A j \in 1..(i - 1) : msgs[j].role # "system"
    ELSE 0

\* The loop that advances end while more than half of the cap is kept.
RECURSIVE ShrinkEnd(_, _, _, _)
ShrinkEnd(msgs, end, kept, half) ==
    IF end < Len(msgs) - 2 /\ kept > half
    THEN ShrinkEnd(msgs, end + 1, kept - msgChars(msgs[end + 1]), half)
    ELSE end

\* A faulty variant of ExtendEnd: the cut is not moved to a user message.
ExtendEndNot(msgs, end) == end

\* A faulty variant of ExtendEnd: the cut moves past tool messages only.
RECURSIVE ExtendEndPastTools(_, _)
ExtendEndPastTools(msgs, end) ==
    IF end < Len(msgs) /\ msgs[end + 1].role = "tool"
    THEN ExtendEndPastTools(msgs, end + 1)
    ELSE end

\* The loop that moves end forward to the next user message.
RECURSIVE ExtendEnd(_, _)
ExtendEnd(msgs, end) ==
    IF end < Len(msgs) /\ msgs[end + 1].role # "user"
    THEN ExtendEnd(msgs, end + 1)
    ELSE end

\* A faulty variant of CompressWindow: the threshold is not tested.
CompressWindowNoThreshold(eng, msgs) ==
    LET start == CompressStart(msgs)
        none  == [ok |-> FALSE, start |-> 0, end |-> 0]
    IN  IF start >= Len(msgs) THEN none
        ELSE LET end1 == ShrinkEnd(msgs, start, estimateChars(SliceFrom(msgs, start)),
                                   eng.maxContextChars \div 2)
             IN  IF end1 <= start THEN none
                 ELSE LET end2 == ExtendEnd(msgs, end1)
                      IN  IF end2 >= Len(msgs) THEN none
                          ELSE [ok |-> TRUE, start |-> start, end |-> end2]

\* The span [start, end) compressContext hands to summarizeMessages, or ok = FALSE
\* when it returns the log unchanged without a summarization call.
CompressWindow(eng, msgs) ==
    LET start == CompressStart(msgs)
        none  == [ok |-> FALSE, start |-> 0, end |-> 0]
    IN  IF estimateChars(msgs) < eng.compressThreshold THEN none
        ELSE IF start >= Len(msgs) THEN none
        ELSE LET end1 == ShrinkEnd(msgs, start, estimateChars(SliceFrom(msgs, start)),
                                   eng.maxContextChars \div 2)
             IN  IF end1 <= start THEN none
                 ELSE LET end2 == ExtendEnd(msgs, end1)
                      IN  IF end2 >= Len(msgs) THEN none
                          ELSE [ok |-> TRUE, start |-> start, end |-> end2]

SummaryPreamble == "[Previous conversation summary]\n"
AckText == "Understood. I have the context from our previous conversation."

Splice(msgs, start, end, summary) ==
    Slice(msgs, 0, start)
        \o <<UserMsg(SummaryPreamble \o summary), AssistantMsg(AckText)>>
        \o SliceFrom(msgs, end)

\* What the summarization request did: whether the stream was created, the content
\* deltas received, and whether the stream ended with io.EOF or a transport error.
SummaryAnswers ==
    { [created |-> FALSE, chunks |-> <<>>, eof |-> FALSE],
      [created |-> TRUE,  chunks |-> <<>>, eof |-> TRUE],
      [created |-> TRUE,  chunks |-> <<"sum", "mary">>, eof |-> TRUE],
      [created |-> TRUE,  chunks |-> <<"sum">>, eof |-> FALSE] }

\* The text summarizeMessages returns.
summarizeMessages(ans) == IF ~ans.created THEN "" ELSE Concat(ans.chunks)

\* A faulty variant of compressContext: an empty summary is spliced like any other.
compressContextSplicesEmpty(eng, msgs, ans) ==
    LET w == CompressWindow(eng, msgs)
    IN  IF ~w.ok THEN msgs
        ELSE Splice(msgs, w.start, w.end, summarizeMessages(ans))

compressContext(eng, msgs, ans) ==
    LET w == CompressWindow(eng, msgs)
    IN  IF ~w.ok THEN msgs
        ELSE IF summarizeMessages(ans) = "" THEN msgs
        ELSE Splice(msgs, w.start, w.end, summarizeMessages(ans))

\* Whether compressContext calls opts.OnCompressed: only on the way to a splice.
compressNotifies(eng, msgs, ans) ==
    CompressWindow(eng, msgs).ok /\ summarizeMessages(ans) # ""

-----------------------------------------------------------------------------
(* The environment: what the model may answer, the logs Chat is seeded     *)
(* with, and the configurations.                                           *)

RequestedNames == <<"echo", "run_command", "bogus">>

\* The provider numbers the call ids within the turn.
CallId(i) == "c" \o ToString(i)

\* The batches of one call, and for each k > 1 the batch of k calls that asks for
\* run_command, bogus, echo, ... in turn.
Singles == { <<Call(CallId(1), RequestedNames[n], "hello")>> : n \in 1..3 }
Wide(k) == [i \in 1..k |-> Call(CallId(i), RequestedNames[(i % 3) + 1], "hello")]

Batches == Singles \cup { Wide(k) : k \in 2..MaxBatch }

TurnResult(content, calls) == [content |-> content, toolCalls |-> calls]

\* The assembled result of a model turn: text only, tool calls, or both.
TextTurns == {TurnResult("done", NoCalls)}
ToolTurns == {TurnResult("", b) : b \in Batches}
                \cup {TurnResult("note", <<Call("c1", "echo", "hello")>>)}

CreateErr == PlainErr("dial error")
StreamErr == PlainErr("stream error")

ShortSeed == <<UserMsg("hi")>>
PlainSeed == <<UserMsg("one"), AssistantMsg("two"), UserMsg("three")>>
ToolSeed  ==
    <<SystemMsg("sys"), UserMsg("one"),
      AssistantCalls(<<Call("c1", "echo", "hello")>>), ToolMsg("result:hello", "c1"),
      AssistantMsg("two"), UserMsg("three")>>

Seeds == {ShortSeed, PlainSeed, ToolSeed}

\* Config values: 0 stands for a field left unset, which New replaces by its default.
Configs ==
    [ MaxRetries        : 1..MaxRetriesBound,
      MaxAutonomousIter : 0..MaxIterBound,
      CompressThreshold : {0, SmallThreshold},
      MaxContextChars   : {SmallContext},
      Approver          : BOOLEAN ]

\* The calls of Chat the model starts from.  Retry budgets and autonomous caps
\* vary on the short log; the longer logs run with the small threshold; an
\* autonomous run has a cap set; one start has no approver configured.
Starts ==
    { st \in [cfg : Configs, autonomous : BOOLEAN, seed : Seeds] :
        /\ st.autonomous <=> st.cfg.MaxAutonomousIter > 0
        /\ st.seed = ShortSeed <=> st.cfg.CompressThreshold = 0
        /\ st.seed # ShortSeed => st.cfg.MaxRetries = 1 /\ ~st.autonomous
        /\ ~st.cfg.Approver => st.seed = ShortSeed /\ st.cfg.MaxRetries = 1 /\ ~st.autonomous }

\* The registry the conversations run with: echo and read_file are safe,
\* run_command needs approval.
Registered(cfg) ==
    RegisterTool(RegisterTool(RegisterTool(New(cfg),
        "echo", TRUE), "run_command", FALSE), "read_file", TRUE)

NotReturned == [returned |-> FALSE, text |-> "", msgs |-> <<>>, err |-> NilErr]

\* History of one Engine.chat call: the requests handed to the client, the
\* backoff waits slept through, whether ctx was cancelled at entry, the error of
\* the last failed attempt, and where a cancellation made the runner return.
NewRunner ==
    [requests |-> 0, waited |-> <<>>, enteredCancelled |-> FALSE,
     last |-> NilErr, abortAt |-> "none"]

\* cancelInBatch: ctx was cancelled while a tool batch was executing;
\* summaryFailed: a summarization call was made and gave no summary;
\* notified: opts.OnCompressed was called.
NewHist == [cancelInBatch |-> FALSE, summaryFailed |-> FALSE, notified |-> FALSE]

\* The value of a unit's variable while the part it belongs to is not being run.
NoUnit == [pc |-> "none"]

NoLast == io = NoUnit /\ ap = NoUnit /\ mm = NoUnit

NoLate == lk = NoUnit /\ il = NoUnit /\ tm = NoUnit /\ nw = NoUnit /\ NoLast

Init ==
    /\ \E st \in Starts :
        /\ e = Registered(st.cfg)
        /\ opts = [Autonomous |-> st.autonomous]
        /\ messages = st.seed
        /\ seed = st.seed
    /\ cancelled = FALSE
    /\ pc = "start"
    /\ iteration = 0
    /\ rpc = "idle" /\ attempt = 0 /\ lastErr = NilErr /\ runner = NewRunner
    /\ toolCalls = <<>> /\ gstate = <<>> /\ results = <<>>
    /\ order = <<>> /\ produced = <<>>
    /\ ret = NotReturned
    /\ turns = <<>> /\ outs = <<>> /\ invoked = {} /\ hist = NewHist
    /\ xt = NoUnit /\ sp = NoUnit /\ cc = NoUnit /\ NoLate

-----------------------------------------------------------------------------
(* Engine.Chat.                                                            *)

\* return text, msgs, err
ChatReturn(text, msgs, err) ==
    [returned |-> TRUE, text |-> text, msgs |-> msgs, err |-> err]

\* A faulty variant of CapReached: iteration >= cap, one pass too few.
CapReachedEarly(eng, o, it) == o.Autonomous /\ it >= eng.maxAutonomousIter

\* A faulty variant of CapReached: the cap applies whatever the mode.
CapReachedAnyMode(eng, o, it) == it > eng.maxAutonomousIter

\* The top of the loop: iteration++ and the autonomous cap.
CapReached(eng, o, it) == o.Autonomous /\ it > eng.maxAutonomousIter

ChatLoop ==
    /\ pc = "start"
    /\ iteration' = iteration + 1
    /\ IF CapReached(e, opts, iteration + 1)
       THEN /\ pc' = "done"
            /\ ret' = ChatReturn("", messages, NilErr)
       ELSE /\ pc' = "compress"
            /\ ret' = ret
    /\ UNCHANGED <<unitVars, e, opts, cancelled, messages, runnerVars, batchVars, histVars>>

\* messages = e.compressContext(ctx, messages, opts), then the entry of e.chat.
\* A request made with a cancelled context is refused by the client.
ChatCompress ==
    /\ pc = "compress"
    /\ \E ans \in SummaryAnswers :
        /\ cancelled => ~ans.created
        /\ messages' = compressContext(e, messages, ans)
        /\ hist' = IF CompressWindow(e, messages).ok /\ summarizeMessages(ans) = ""
                   THEN [hist EXCEPT !.summaryFailed = TRUE]
                   ELSE IF compressNotifies(e, messages, ans)
                   THEN [hist EXCEPT !.notified = TRUE]
                   ELSE hist
    /\ pc' = "request"
    /\ rpc' = "create" /\ attempt' = 0 /\ lastErr' = NilErr
    /\ runner' = [NewRunner EXCEPT !.enteredCancelled = cancelled]
    /\ UNCHANGED <<unitVars, e, opts, cancelled, iteration, ret, batchVars, seed, turns, outs, invoked>>

-----------------------------------------------------------------------------
(* Engine.chat, the retrying request runner.                               *)

\* A faulty variant of ExhaustedErr: return "", nil, lastErr, the last error as it is.
ExhaustedErrBare(eng, err) == err

\* fmt.Errorf("failed after %d retries: %w", e.maxRetries, lastErr)
ExhaustedErr(eng, err) ==
    [msg |-> "failed after " \o ToString(eng.maxRetries) \o " retries: " \o err.msg,
     wraps |-> err.msg]

\* A faulty variant of Backoff: the wait grows by one second per retry.
BackoffLinear(k) == k

\* The wait before retry number k: 1<<(k-1) seconds.
Backoff(k) == 2 ^ (k - 1)

\* A faulty variant of ChatFails: return "", nil, err, the log is dropped.
ChatFailsNoLog(err) ==
    /\ pc' = "done"
    /\ rpc' = "idle"
    /\ ret' = ChatReturn("", <<>>, err)
    /\ UNCHANGED <<messages, iteration>>

\* if err != nil { return "", messages, err } in Chat
ChatFails(err) ==
    /\ pc' = "done"
    /\ rpc' = "idle"
    /\ ret' = ChatReturn("", messages, err)
    /\ UNCHANGED <<messages, iteration>>

\* for attempt := 0; attempt <= e.maxRetries; attempt++
RunnerMayRetry(eng, att) == att <= eng.maxRetries

\* A faulty variant of AttemptFailed: the failed attempt's error is not kept in lastErr.
AttemptFailedForgets(err) ==
    /\ lastErr' = lastErr
    /\ attempt' = attempt + 1
    /\ IF RunnerMayRetry(e, attempt + 1)
       THEN /\ rpc' = "check"
            /\ UNCHANGED chatVars
       ELSE ChatFails(ExhaustedErr(e, lastErr))

\* lastErr = err; continue: the next attempt, or the end of the for loop.
AttemptFailed(err) ==
    /\ lastErr' = err
    /\ attempt' = attempt + 1
    /\ IF RunnerMayRetry(e, attempt + 1)
       THEN /\ rpc' = "check"
            /\ UNCHANGED chatVars
       ELSE ChatFails(ExhaustedErr(e, err))

\* e.client.CreateChatCompletionStream
RunnerCreate ==
    /\ pc = "request" /\ rpc = "create"
    /\ \/ LET err == IF cancelled THEN CanceledErr ELSE CreateErr
          IN  /\ AttemptFailed(err)
              /\ runner' = [runner EXCEPT !.requests = @ + 1, !.last = err]
       \/ /\ ~cancelled
          /\ rpc' = "stream"
          /\ runner' = [runner EXCEPT !.requests = @ + 1]
          /\ UNCHANGED <<attempt, lastErr, chatVars>>
    /\ UNCHANGED <<unitVars, e, opts, cancelled, batchVars, histVars>>

\* A faulty variant of CheckAborts: no ctx.Err() check before the wait.
CheckAbortsNever(c) == FALSE

\* if attempt > 0 { if ctx.Err() != nil { return "", nil, lastErr } ... }
CheckAborts(c) == c

RunnerCheck ==
    /\ pc = "request" /\ rpc = "check"
    /\ IF CheckAborts(cancelled)
       THEN /\ runner' = [runner EXCEPT !.abortAt = "check"]
            /\ ChatFails(lastErr)
       ELSE /\ rpc' = "wait"
            /\ UNCHANGED <<runner, chatVars>>
    /\ UNCHANGED <<unitVars, e, opts, cancelled, attempt, lastErr, batchVars, histVars>>

\* A faulty variant of WaitAborts: time.Sleep(wait), the wait ignores ctx.Done().
WaitAbortsNever(c) == FALSE

\* select { case <-time.After(wait): case <-ctx.Done(): return "", nil, lastErr }
\* The goroutine is woken by whichever of the two happens first.
WaitAborts(c) == c

RunnerWait ==
    /\ pc = "request" /\ rpc = "wait"
    /\ IF WaitAborts(cancelled)
       THEN /\ runner' = [runner EXCEPT !.abortAt = "wait"]
            /\ ChatFails(lastErr)
       ELSE /\ rpc' = "create"
            /\ runner' = [runner EXCEPT !.waited = Append(@, Backoff(attempt))]
            /\ UNCHANGED chatVars
    /\ UNCHANGED <<unitVars, e, opts, cancelled, attempt, lastErr, batchVars, histVars>>

\* The bound on the model's turns: at most MaxTurns turns of one Chat request
\* tools, and only the first of them requests more than one call.
MayRequest(r) ==
    /\ r.toolCalls # NoCalls => Len(turns) < MaxTurns
    /\ Len(r.toolCalls) > 1 => turns = <<>>

\* A faulty variant of ToolTurnMsg: the text of the turn is kept in the message.
ToolTurnMsgWithText(r) == Msg("assistant", r.content, r.toolCalls, "")

\* openai.ChatCompletionMessage{Role: assistant, ToolCalls: toolCalls}
ToolTurnMsg(r) == AssistantCalls(r.toolCalls)

\* What Chat does with a successful turn.
ChatHandle(r) ==
    IF Len(r.toolCalls) > 0
    THEN /\ messages' = Append(messages, ToolTurnMsg(r))
         /\ pc' = "tools"
         /\ toolCalls' = r.toolCalls
         /\ gstate' = [i \in 1..Len(r.toolCalls) |-> "ready"]
         /\ results' = [i \in 1..Len(r.toolCalls) |-> NoResult]
         /\ order' = <<>>
         /\ produced' = [i \in 1..Len(r.toolCalls) |-> NoResult]
         /\ UNCHANGED <<iteration, ret>>
    ELSE /\ messages' = Append(messages, AssistantMsg(r.content))
         /\ pc' = "done"
         /\ ret' = ChatReturn(r.content, messages', NilErr)
         /\ UNCHANGED <<iteration, batchVars>>

\* e.processStreamResponse: a read error, or the assembled turn.
RunnerStream ==
    /\ pc = "request" /\ rpc = "stream"
    /\ \/ LET err == IF cancelled THEN CanceledErr ELSE StreamErr
          IN  /\ AttemptFailed(err)
              /\ runner' = [runner EXCEPT !.last = err]
              /\ UNCHANGED <<batchVars, histVars>>
       \/ \E r \in TextTurns \cup ToolTurns :
            /\ MayRequest(r)
            /\ rpc' = "idle" /\ attempt' = 0 /\ lastErr' = NilErr
            /\ runner' = NewRunner
            /\ turns' = Append(turns, r)
            /\ ChatHandle(r)
            /\ UNCHANGED <<seed, outs, invoked, hist>>
    /\ UNCHANGED <<unitVars, e, opts, cancelled>>

-----------------------------------------------------------------------------
(* Engine.executeToolsConcurrently: one goroutine per call, then wg.Wait.  *)

Finish(i, r) ==
    /\ gstate' = [gstate EXCEPT ![i] = "done"]
    /\ results' = StoreResult(results, i, toolResult(toolCalls[i].id, r))
    /\ order' = Append(order, i)
    /\ produced' = [produced EXCEPT ![i] = toolResult(toolCalls[i].id, r)]

\* Goroutine i up to the handler call.
ToolStart(i) ==
    /\ pc = "tools" /\ i \in DOMAIN gstate /\ gstate[i] = "ready"
    /\ \E answer \in ApproverAnswers :
        LET tc  == toolCalls[i]
            pre == executeToolPre(e, tc.name, tc.args, answer)
        IN  /\ invoked' = invoked
                    \cup (IF pre.asked THEN {<<"approver", tc.name>>} ELSE {})
                    \cup (IF pre.proceed THEN {<<"handler", tc.name>>} ELSE {})
            /\ IF pre.proceed
               THEN /\ gstate' = [gstate EXCEPT ![i] = "running"]
                    /\ UNCHANGED <<results, order, produced>>
               ELSE Finish(i, pre)
    /\ UNCHANGED <<unitVars, e, opts, cancelled, chatVars, runnerVars, toolCalls, seed, turns, outs, hist>>

\* The handler of goroutine i returns.
ToolFinish(i) ==
    /\ pc = "tools" /\ i \in DOMAIN gstate /\ gstate[i] = "running"
    /\ \E h \in HandlerReturns(toolCalls[i].name, toolCalls[i].args) :
        Finish(i, executeToolPost(e, toolCalls[i].name, h))
    /\ UNCHANGED <<unitVars, e, opts, cancelled, chatVars, runnerVars, toolCalls, histVars>>

\* A faulty variant of JoinReady: the wait ends when the first goroutine is done.
JoinReadyFirst(calls, g) == \E i \in 1..Len(calls) : g[i] = "done"

\* wg.Wait(): every goroutine of the batch has called wg.Done().
JoinReady(calls, g) == \A i \in 1..Len(calls) : g[i] = "done"

\* The loop of Chat over toolMsgs: what is handed to opts.OnToolError and
\* opts.OnToolResult, in order.
Notify(calls, res) ==
    LET msgs == BuildToolMsgs(res)
    IN  [i \in 1..Len(msgs) |->
            IF res[i].isError
            THEN [observer |-> "OnToolError", name |-> msgs[i].toolCallID,
                  text |-> msgs[i].content]
            ELSE [observer |-> "OnToolResult", name |-> calls[i].name,
                  text |-> msgs[i].content]]

\* for _, tc := range toolCalls { opts.OnToolCall(tc.Function.Name, tc.Function.Arguments) }
Announce(calls) == [i \in 1..Len(calls) |-> [name |-> calls[i].name, args |-> calls[i].args]]

\* wg.Wait() returns, the messages are built and Chat appends them.
ToolJoin ==
    /\ pc = "tools"
    /\ JoinReady(toolCalls, gstate)
    /\ messages' = messages \o BuildToolMsgs(results)
    /\ outs' = Append(outs, [order |-> order, produced |-> produced,
                             announced |-> Announce(toolCalls),
                             notified |-> Notify(toolCalls, results)])
    /\ pc' = "start"
    /\ toolCalls' = <<>> /\ gstate' = <<>> /\ results' = <<>>
    /\ order' = <<>> /\ produced' = <<>>
    /\ UNCHANGED <<unitVars, e, opts, cancelled, iteration, ret, runnerVars,
                   seed, turns, invoked, hist>>

\* The caller cancels the context of the Chat call.
Cancel ==
    /\ pc # "done" /\ ~cancelled
    /\ cancelled' = TRUE
    /\ hist' = [hist EXCEPT !.cancelInBatch = (pc = "tools")]
    /\ UNCHANGED <<unitVars, e, opts, chatVars, runnerVars, batchVars, seed, turns, outs, invoked>>

Next ==
    \/ ChatLoop
    \/ ChatCompress
    \/ RunnerCreate
    \/ RunnerCheck
    \/ RunnerWait
    \/ RunnerStream
    \/ \E i \in 1..MaxBatch : ToolStart(i)
    \/ \E i \in 1..MaxBatch : ToolFinish(i)
    \/ ToolJoin
    \/ Cancel

Spec == Init /\ [][Next]_vars

-----------------------------------------------------------------------------
(* The parts of the engine taken on their own.  While one of them runs, no *)
(* Chat call is in progress.                                               *)

NoChat ==
    /\ opts = [Autonomous |-> FALSE] /\ cancelled = FALSE
    /\ pc = "none" /\ messages = <<>> /\ iteration = 0 /\ ret = NotReturned
    /\ rpc = "idle" /\ attempt = 0 /\ lastErr = NilErr /\ runner = NewRunner
    /\ toolCalls = <<>> /\ gstate = <<>> /\ results = <<>>
    /\ order = <<>> /\ produced = <<>>
    /\ seed = <<>> /\ turns = <<>> /\ outs = <<>> /\ invoked = {} /\ hist = NewHist

chatAll == <<opts, cancelled, chatVars, runnerVars, batchVars, histVars>>

-----------------------------------------------------------------------------
(* Engine.ExecuteTool: one call of executeTool on an engine whose registry *)
(* holds any part of a pool of tools, each registered safe or not.         *)

\* read_file has three alternatives in the table, save_memory has no entry.
ExecPool == <<"read_file", "list_files", "glob", "search_files", "save_memory">>

InPool(names) == SelectSeq(ExecPool, LAMBDA n : n \in names)

RECURSIVE RegisterAll(_, _, _)
RegisterAll(eng, names, safe) ==
    IF names = <<>> THEN eng
    ELSE RegisterAll(RegisterTool(eng, Head(names), Head(names) \in safe), Tail(names), safe)

UnsetConfig(approver) ==
    [MaxRetries |-> 0, MaxAutonomousIter |-> 0, CompressThreshold |-> 0,
     MaxContextChars |-> 0, Approver |-> approver]

PoolNames == {ExecPool[i] : i \in 1..Len(ExecPool)}

ExecEngines ==
    { RegisterAll(New(UnsetConfig(a)), InPool(S), safe) :
        a \in BOOLEAN, S \in SUBSET PoolNames, safe \in SUBSET PoolNames }

ExecNames == PoolNames \cup {"bogus"}

ExecInit ==
    /\ NoChat
    /\ e \in ExecEngines
    /\ \E n \in ExecNames :
        xt = [pc |-> "call", name |-> n, args |-> "hello", answer |-> "", herr |-> "",
              trace |-> <<>>, output |-> "", isError |-> FALSE]
    /\ sp = NoUnit /\ cc = NoUnit /\ NoLate

\* executeTool up to the handler call; trace lists the collaborators as they are called.
ExecBegin ==
    /\ xt.pc = "call"
    /\ \E answer \in ApproverAnswers :
        LET pre == executeToolPre(e, xt.name, xt.args, answer)
        IN  xt' = [xt EXCEPT
                    !.pc = IF pre.proceed THEN "handler" ELSE "done",
                    !.answer = IF pre.asked THEN answer ELSE "",
                    !.trace = (IF pre.asked THEN <<"approver">> ELSE <<>>)
                                \o (IF pre.proceed THEN <<"handler">> ELSE <<>>),
                    !.output = pre.output,
                    !.isError = pre.isError]
    /\ UNCHANGED <<e, chatAll, sp, cc, lateUnits>>

\* The handler returns and executeTool formats the result.
ExecReturn ==
    /\ xt.pc = "handler"
    /\ \E h \in HandlerReturns(xt.name, xt.args) :
        LET post == executeToolPost(e, xt.name, h)
        IN  xt' = [xt EXCEPT !.pc = "done", !.herr = h.err,
                             !.output = post.output, !.isError = post.isError]
    /\ UNCHANGED <<e, chatAll, sp, cc, lateUnits>>

ExecNext == ExecBegin \/ ExecReturn

ExecSpec == ExecInit /\ [][ExecNext]_vars

-----------------------------------------------------------------------------
(* Engine.processStreamResponse: the assembly of the tool-call deltas of   *)
(* one streamed turn.  The stream is the environment: for each position    *)
(* index it holds a script of deltas, delivered in any interleaving that   *)
(* keeps the order of each script; chunks without deltas, the end of the   *)
(* stream and a read error may come at any point.                          *)

\* tc.Index == nil
NilIndex == -1

Delta(index, id, type, name, args) ==
    [index |-> index, id |-> id, type |-> type, name |-> name, args |-> args]

StreamId(p) == "call" \o ToString(p)

\* The scripts of position p: one whole delta; name and arguments in fragments;
\* the id arriving late and then replaced; and, for position 0, deltas that
\* carry no index and no id.
NumScripts == 4

Script(p, k) ==
    CASE k = 1 -> <<Delta(p, StreamId(p), "function", "echo", "{}")>>
      [] k = 2 -> <<Delta(p, StreamId(p), "function", "ec", ""),
                    Delta(p, "", "", "ho", "{a"),
                    Delta(p, "", "", "", "}")>>
      [] k = 3 -> <<Delta(p, "", "function", "run", "x"),
                    Delta(p, StreamId(p), "", "", "y"),
                    Delta(p, StreamId(p) \o "b", "", "_command", "")>>
      [] k = 4 -> <<Delta(NilIndex, "", "function", "echo", "{"),
                    Delta(NilIndex, "", "", "", "}")>>

StreamPlans ==
    { [p \in DOMAIN f |-> Script(p, f[p])] :
        f \in { g \in UNION { [S -> 1..NumScripts] : S \in SUBSET (0..MaxIndex) } :
                    \A p \in DOMAIN g : g[p] = 4 => p = 0 } }

\* openai.FinishReason values of a chunk; "" is a chunk that does not finish.
FinishReasons == {"", "tool_calls", "stop"}

NoMap == [p \in {} |-> Delta(0, "", "", "", "")]

\* The entry of processStreamResponse on a stream that will deliver plan.
\* content is fullContent; onContent and onReasoning list the texts handed to
\* opts.OnContent and opts.OnReasoning; arrived lists the choices without
\* tool-call deltas received by this call, chunks counts them over all calls of
\* one Engine.chat, lastReason is the finish reason of the last chunk that had
\* a choice, and attempt is the loop variable of Engine.chat.
NewStream(plan) ==
    [pc |-> "recv", plan |-> plan, pending |-> plan, trail |-> 0,
     toolCallsMap |-> NoMap, finishReason |-> "",
     content |-> "", onContent |-> <<>>, onReasoning |-> <<>>,
     arrived |-> <<>>, chunks |-> 0, lastReason |-> "", attempt |-> 0,
     result |-> [content |-> "", toolCalls |-> <<>>, err |-> NilErr]]

StreamInit ==
    /\ NoChat
    /\ e = New(UnsetConfig(FALSE))
    /\ \E plan \in StreamPlans : sp = NewStream(plan)
    /\ xt = NoUnit /\ cc = NoUnit /\ NoLate

\* A faulty variant of ApplyDelta: a later name fragment replaces the name.
ApplyDeltaOverwrites(m, tc) ==
    LET idx == IF tc.index = NilIndex THEN 0 ELSE tc.index
    IN  IF idx \notin DOMAIN m
        THEN [k \in DOMAIN m \cup {idx} |->
                IF k = idx
                THEN [id |-> tc.id, type |-> tc.type, name |-> tc.name, args |-> tc.args]
                ELSE m[k]]
        ELSE [m EXCEPT ![idx] =
                [id   |-> IF tc.id # "" THEN tc.id ELSE @.id,
                 type |-> @.type,
                 name |-> IF tc.name # "" THEN tc.name ELSE @.name,
                 args |-> @.args \o tc.args]]

\* The body of the loop over choice.Delta.ToolCalls for one delta.
ApplyDelta(m, tc) ==
    LET idx == IF tc.index = NilIndex THEN 0 ELSE tc.index
    IN  IF idx \notin DOMAIN m
        THEN [k \in DOMAIN m \cup {idx} |->
                IF k = idx
                THEN [id |-> tc.id, type |-> tc.type, name |-> tc.name, args |-> tc.args]
                ELSE m[k]]
        ELSE [m EXCEPT ![idx] =
                [id   |-> IF tc.id # "" THEN tc.id ELSE @.id,
                 type |-> @.type,
                 name |-> IF tc.name # "" THEN @.name \o tc.name ELSE @.name,
                 args |-> @.args \o tc.args]]

\* A faulty variant of NextReason: a choice without finish reason keeps the
\* finish reason of an earlier chunk.
NextReasonSticky(old, r) == IF r = "" THEN old ELSE r

\* finishReason = choice.FinishReason
NextReason(old, r) == r

\* A chunk whose choice carries the next tool-call delta of position p.
StreamDelta(p) ==
    /\ sp.pc = "recv"
    /\ p \in DOMAIN sp.pending /\ sp.pending[p] # <<>>
    /\ sp' = [sp EXCEPT !.pending[p] = Tail(@),
                        !.finishReason = NextReason(@, ""),
                        !.lastReason = "",
                        !.toolCallsMap = ApplyDelta(@, Head(sp.pending[p]))]
    /\ UNCHANGED <<e, chatAll, xt, cc, lateUnits>>

\* A chunk whose choice carries no tool-call delta, with finish reason r.
StreamChoice(r) ==
    /\ sp.pc = "recv" /\ sp.trail < MaxTrail
    /\ sp' = [sp EXCEPT !.trail = @ + 1, !.finishReason = NextReason(@, r),
                        !.lastReason = r]
    /\ UNCHANGED <<e, chatAll, xt, cc, lateUnits>>

\* A chunk with an empty choice list: continue.
StreamNoChoice ==
    /\ sp.pc = "recv" /\ sp.trail < MaxTrail
    /\ sp' = [sp EXCEPT !.trail = @ + 1]
    /\ UNCHANGED <<e, chatAll, xt, cc, lateUnits>>

\* for i := 0; i < len(toolCallsMap); i++ { if tc, ok := toolCallsMap[i]; ok { append } }
RECURSIVE EmitFrom(_, _, _)
EmitFrom(m, i, n) ==
    IF i >= n THEN <<>>
    ELSE (IF i \in DOMAIN m THEN <<m[i]>> ELSE <<>>) \o EmitFrom(m, i + 1, n)

\* A faulty variant of EmitToolCalls: the finish reason is not looked at.
EmitToolCallsAnyReason(m, reason) ==
    IF Cardinality(DOMAIN m) > 0 THEN EmitFrom(m, 0, Cardinality(DOMAIN m)) ELSE <<>>

\* The tool calls returned at the end of the stream.
EmitToolCalls(m, reason) ==
    IF reason = "tool_calls" /\ Cardinality(DOMAIN m) > 0
    THEN EmitFrom(m, 0, Cardinality(DOMAIN m))
    ELSE <<>>

\* stream.Recv returns io.EOF.
StreamEOF ==
    /\ sp.pc = "recv"
    /\ sp' = [sp EXCEPT !.pc = "done",
                        !.result = [content |-> sp.content, err |-> NilErr,
                                    toolCalls |-> EmitToolCalls(sp.toolCallsMap, sp.finishReason)]]
    /\ UNCHANGED <<e, chatAll, xt, cc, lateUnits>>

\* stream.Recv returns another error: return "", nil, err.
StreamFails ==
    /\ sp.pc = "recv"
    /\ sp' = [sp EXCEPT !.pc = "done",
                        !.result = [content |-> "", err |-> StreamErr, toolCalls |-> <<>>]]
    /\ UNCHANGED <<e, chatAll, xt, cc, lateUnits>>

StreamNext ==
    \/ \E p \in 0..MaxIndex : StreamDelta(p)
    \/ \E r \in FinishReasons : StreamChoice(r)
    \/ StreamNoChoice
    \/ StreamEOF
    \/ StreamFails

StreamSpec == StreamInit /\ [][StreamNext]_vars

-----------------------------------------------------------------------------
(* Engine.compressContext: one call on any log of up to MaxLog messages.   *)

TwoCalls == <<Call("c1", "echo", "hello"), Call("c2", "read_file", "hello")>>

\* The messages the logs are made of.
LogMessages ==
    { SystemMsg("sys"), UserMsg("uu"), AssistantMsg("aaa"),
      AssistantCalls(<<Call("c1", "echo", "hello")>>), AssistantCalls(TwoCalls),
      ToolMsg("rr", "c1"), ToolMsg("rr", "c2") }

\* The logs: a tool message never opens a log and never follows a user or a
\* system message.
CompressLogs ==
    { log \in UNION { [1..n -> LogMessages] : n \in 1..MaxLog } :
        \A i \in 1..Len(log) :
            log[i].role = "tool" =>
                i > 1 /\ (log[i - 1].role = "tool" \/ log[i - 1].toolCalls # NoCalls) }

CompressConfigs ==
    { [MaxRetries |-> 0, MaxAutonomousIter |-> 0, CompressThreshold |-> t,
       MaxContextChars |-> c, Approver |-> FALSE] :
        t \in {SmallThreshold, 3 * SmallThreshold}, c \in {SmallThreshold, SmallContext} }

NoAnswer == [created |-> FALSE, chunks |-> <<>>, eof |-> FALSE]

CompressInit ==
    /\ NoChat
    /\ \E cfg \in CompressConfigs : e = New(cfg)
    /\ \E log \in CompressLogs :
        cc = [pc |-> "call", in |-> log, out |-> <<>>, asked |-> FALSE, ans |-> NoAnswer,
              notified |-> FALSE, requests |-> 0]
    /\ xt = NoUnit /\ sp = NoUnit /\ NoLate

\* compressContext up to the summarization call: the threshold and the span.
CompressBegin ==
    /\ cc.pc = "call"
    /\ IF CompressWindow(e, cc.in).ok
       THEN cc' = [cc EXCEPT !.pc = "summarize"]
       ELSE cc' = [cc EXCEPT !.pc = "done", !.out = compressContext(e, cc.in, NoAnswer)]
    /\ UNCHANGED <<e, chatAll, xt, sp, lateUnits>>

\* summarizeMessages makes its one request to the client; when the client has
\* answered (refused it, or streamed until Recv returned an error or io.EOF),
\* summarizeMessages returns and compressContext returns the log or the splice.
\* Until the client answers, summarizeMessages is blocked in the call.
CompressSummarized ==
    /\ cc.pc = "summarize"
    /\ \E ans \in SummaryAnswers :
        cc' = [cc EXCEPT !.pc = "done", !.asked = TRUE, !.ans = ans,
                         !.requests = @ + 1,
                         !.notified = compressNotifies(e, cc.in, ans),
                         !.out = compressContext(e, cc.in, ans)]
    /\ UNCHANGED <<e, chatAll, xt, sp, lateUnits>>

CompressNext == CompressBegin \/ CompressSummarized

CompressSpec == CompressInit /\ [][CompressNext]_vars

\* The steps compressContext takes by itself are taken; the answer of the
\* client to the summarization request is the client's to give, or not.
FairCompressSpec == CompressSpec /\ WF_vars(CompressBegin)

-----------------------------------------------------------------------------
(* What the histories say the log must hold.                               *)

\* The messages pass k of the loop appends: the assistant message with the
\* requests of turn k, then one tool message per request, in request order.
PassMsgs(k) ==
    LET calls == turns[k].toolCalls
    IN  <<AssistantCalls(calls)>>
            \o [i \in 1..Len(calls) |-> ToolMsg(outs[k].produced[i].output, calls[i].id)]

PassLog == Flatten([k \in 1..Len(outs) |-> PassMsgs(k)])

EndsWith(log, tail) ==
    /\ Len(log) >= Len(tail)
    /\ SubSeq(log, Len(log) - Len(tail) + 1, Len(log)) = tail

HasPrefix(str, pre) == Len(str) >= Len(pre) /\ SubSeq(str, 1, Len(pre)) = pre

\* log is the seed, or the seed with a span that ends at a user message
\* replaced by the synthetic summary pair.
SeedOrSpliced(log) ==
    \/ log = seed
    \/ \E s \in 0..1, k \in 2..Len(seed) :
        /\ seed[k].role = "user"
        /\ Len(log) = s + 2 + (Len(seed) - k + 1)
        /\ SubSeq(log, 1, s) = SubSeq(seed, 1, s)
        /\ log[s + 1].role = "user" /\ HasPrefix(log[s + 1].content, SummaryPreamble)
        /\ log[s + 2] = AssistantMsg(AckText)
        /\ SubSeq(log, s + 3, Len(log)) = SubSeq(seed, k, Len(seed))

\* Every tool message belongs to the block of results that directly follows an
\* assistant message: one result per request, with the request's id.
WellFormed(log) ==
    \A j \in 1..Len(log) :
        log[j].role = "tool" =>
            \E a \in 1..(j - 1) :
                LET calls == log[a].toolCalls
                IN  /\ log[a].role = "assistant"
                    /\ j - a <= Len(calls)
                    /\ a + Len(calls) <= Len(log)
                    /\ \A k \in 1..Len(calls) :
                        /\ log[a + k].role = "tool"
                        /\ log[a + k].toolCallID = calls[k].id

Spliced(log) == \E j \in 1..Len(log) : HasPrefix(log[j].content, SummaryPreamble)

AllTurnsRequestTools == \A k \in 1..Len(turns) : turns[k].toolCalls # NoCalls

-----------------------------------------------------------------------------
(* The claims.                                                             *)

\* C1: when a batch of K calls has been joined, the log ends with the assistant
\* message of the batch followed by exactly K tool messages, and message i
\* carries the output goroutine i computed and the id of request i, whatever
\* the order in which the goroutines finished.
C1_ResultsInRequestOrder ==
    (pc = "start" /\ outs # <<>>) =>
        LET k     == Len(outs)
            calls == turns[k].toolCalls
            K     == Len(calls)
            n     == Len(messages)
        IN  /\ n > K
            /\ messages[n - K] = AssistantCalls(calls)
            /\ \A i \in 1..K :
                /\ outs[k].produced[i].id = calls[i].id
                /\ messages[n - K + i] = ToolMsg(outs[k].produced[i].output, calls[i].id)

\* C1 witness: a batch of two calls whose second goroutine finished first.
C1_Witness ==
    /\ pc = "start" /\ outs # <<>>
    /\ outs[Len(outs)].order = <<2, 1>>
    /\ outs[Len(outs)].produced[1].output # outs[Len(outs)].produced[2].output

EchoCall == Call("c1", "echo", "hello")

\* C2: from the log [user], with the turns (echo "hello") and then the text
\* "done", Chat returns "done", a nil error and the log
\* [user, assistant(echo call), tool("result:hello", id of the call), assistant("done")].
C2_EchoScenario ==
    ( /\ ret.returned
      /\ seed = ShortSeed
      /\ turns = <<TurnResult("", <<EchoCall>>), TurnResult("done", NoCalls)>> ) =>
        /\ ret.text = "done"
        /\ ret.err = NilErr
        /\ ret.msgs = <<UserMsg("hi"), AssistantCalls(<<EchoCall>>),
                        ToolMsg("result:hello", "c1"), AssistantMsg("done")>>

\* C2 witness: Chat returned after exactly these two turns.
C2_Witness ==
    /\ ret.returned
    /\ seed = ShortSeed
    /\ turns = <<TurnResult("", <<EchoCall>>), TurnResult("done", NoCalls)>>

\* C3: every log Chat returns from a well-formed seed is well formed: each tool
\* message sits in the block of results directly after the assistant message
\* that requested it, one result per request with that request's id.
C3_ToolResultsFollowRequests ==
    /\ WellFormed(seed)
    /\ ret.returned => WellFormed(ret.msgs)
    /\ pc = "start" => WellFormed(messages)

\* C3 witness: a returned log that was spliced by the compressor and holds the
\* results of a batch of two calls.
C3_Witness ==
    /\ ret.returned
    /\ Spliced(ret.msgs)
    /\ \E j \in 1..Len(ret.msgs) : ret.msgs[j].role = "tool" /\ ret.msgs[j].toolCallID = "c2"

\* C4: in autonomous mode with cap C no more than C model turns succeed, and a
\* Chat that returns without error after turns that all requested tools has
\* made exactly C turns and C batches and returns "" with the accumulated log.
C4_AutonomousCap ==
    opts.Autonomous =>
        /\ Len(turns) <= e.maxAutonomousIter
        /\ (ret.returned /\ ret.err = NilErr /\ AllTurnsRequestTools) =>
                /\ Len(turns) = e.maxAutonomousIter
                /\ Len(outs) = e.maxAutonomousIter
                /\ ret.text = ""
                /\ ret.msgs = messages
                /\ EndsWith(ret.msgs, PassLog)

\* C4 witness: an autonomous Chat with cap MaxIterBound stopped by the cap.
C4_Witness ==
    /\ opts.Autonomous /\ e.maxAutonomousIter = MaxIterBound
    /\ ret.returned /\ ret.err = NilErr /\ AllTurnsRequestTools

\* C5: when Chat returns an error and the context was never cancelled, the
\* runner made exactly R+1 requests (R waits between them), and the error
\* wraps the error of the last attempt and names the budget R.
C5_RetryBudget ==
    (ret.returned /\ ret.err # NilErr /\ ~cancelled) =>
        /\ runner.requests = e.maxRetries + 1
        /\ Len(runner.waited) = e.maxRetries
        /\ runner.last # NilErr
        /\ ret.err.wraps = runner.last.msg
        /\ ret.err.msg = "failed after " \o ToString(e.maxRetries)
                            \o " retries: " \o runner.last.msg

\* C5 witness: a budget of MaxRetriesBound retries exhausted, the last attempt
\* failing while the stream was read.
C5_Witness ==
    /\ ret.returned /\ ret.err # NilErr /\ ~cancelled
    /\ e.maxRetries = MaxRetriesBound
    /\ runner.last = StreamErr

\* C6: a step of the runner taken with the context cancelled, at the check
\* before a retry wait or during the wait, is its return: no further request,
\* no wait slept through, and the error of the last attempt, unwrapped.
C6_CancelledWaitReturns ==
    [][ (pc = "request" /\ rpc \in {"check", "wait"} /\ cancelled) =>
            /\ ret'.returned
            /\ ret'.err = runner.last
            /\ ret'.err # NilErr /\ ret'.err.wraps = ""
            /\ runner'.requests = runner.requests
            /\ runner'.waited = runner.waited
      ]_vars

\* C6 witness: the runner returned because the context was cancelled during a wait.
C6_Witness == ret.returned /\ runner.abortAt = "wait" /\ cancelled

\* C7 as claimed: a runner entered with a cancelled context issues no request.
C7_Original == runner.enteredCancelled => runner.requests = 0

\* C7 amended: the first attempt is made without a cancellation check; a runner
\* entered with a cancelled context hands exactly one request to the client,
\* sleeps through no wait, and returns at the check before the first retry
\* wait with the error of that attempt.
C7_FirstAttemptUnchecked ==
    runner.enteredCancelled =>
        /\ runner.requests <= 1
        /\ runner.waited = <<>>
        /\ ret.returned =>
            /\ runner.requests = 1
            /\ runner.abortAt = "check"
            /\ ret.err = runner.last /\ ret.err # NilErr

\* C7 witness: Chat returned from a runner that was entered with the context cancelled.
C7_Witness == runner.enteredCancelled /\ ret.returned

\* C8: when Chat returns an error, the log it returns is its log at the failure:
\* the seed (as it is or spliced by the compressor) followed by the assistant
\* message and all tool results of every turn that requested tools.
C8_ErrorKeepsLog ==
    (ret.returned /\ ret.err # NilErr) =>
        /\ ret.msgs = messages
        /\ Len(outs) = Len(turns)
        /\ EndsWith(ret.msgs, PassLog)
        /\ SeedOrSpliced(SubSeq(ret.msgs, 1, Len(ret.msgs) - Len(PassLog)))

\* C8 witness: the context was cancelled while a batch was executing, and the
\* error return carries that batch.
C8_Witness ==
    /\ ret.returned /\ ret.err # NilErr
    /\ hist.cancelInBatch
    /\ outs # <<>>

\* C9: Chat returns an error only when the runner failed (budget exhausted, or
\* cancelled with the last attempt's error), and returns a nil error only when
\* no failed attempt is pending, whatever the tools and the compressor did.
C9_OnlyRunnerErrors ==
    ret.returned =>
        /\ ret.err # NilErr =>
            /\ runner.last # NilErr
            /\ \/ cancelled /\ ret.err = runner.last
               \/ ret.err.wraps = runner.last.msg /\ runner.requests = e.maxRetries + 1
        /\ ret.err = NilErr =>
            /\ runner.last = NilErr
            /\ \/ turns # <<>> /\ turns[Len(turns)].toolCalls = NoCalls
               \/ opts.Autonomous /\ iteration > e.maxAutonomousIter

\* C9 witness: Chat returned a nil error after a batch with an unknown tool and
\* a denied or failed tool, and after a summarization that gave nothing.
C9_Witness ==
    /\ ret.returned /\ ret.err = NilErr
    /\ hist.summaryFailed
    /\ \E k \in 1..Len(outs) :
        /\ Len(outs[k].produced) = 2
        /\ \A i \in 1..2 : outs[k].produced[i].isError

UnknownIn(calls) == \E i \in 1..Len(calls) : calls[i].name \notin e.toolFuncs

\* C10 as claimed: after a batch with an unknown tool Chat always issues the
\* next model request before it returns.
C10_Original ==
    ( /\ ret.returned
      /\ outs # <<>> /\ Len(outs) = Len(turns)
      /\ UnknownIn(turns[Len(turns)].toolCalls) ) =>
        runner.requests >= 1

\* C10 amended: for an unknown tool name neither the approver nor a handler is
\* invoked and the result is "Unknown tool: <name>"; the result is appended, and
\* Chat issues the next model request unless the autonomous cap ends the loop.
C10_UnknownTool ==
    /\ \A p \in invoked : p[2] \in e.toolFuncs
    /\ \A k \in 1..Len(outs) : \A i \in 1..Len(turns[k].toolCalls) :
        turns[k].toolCalls[i].name \notin e.toolFuncs =>
            /\ outs[k].produced[i].output = "Unknown tool: " \o turns[k].toolCalls[i].name
            /\ \E j \in 1..Len(messages) :
                messages[j] = ToolMsg("Unknown tool: " \o turns[k].toolCalls[i].name,
                                      turns[k].toolCalls[i].id)
    /\ ( /\ ret.returned
         /\ outs # <<>> /\ Len(outs) = Len(turns)
         /\ UnknownIn(turns[Len(turns)].toolCalls)
         /\ ~(opts.Autonomous /\ iteration > e.maxAutonomousIter) ) =>
            /\ runner.requests >= 1
            /\ ret.err # NilErr

\* C10 witness: a batch asked for the unknown tool bogus, and Chat went on to a
\* later turn.
C10_Witness ==
    /\ Len(turns) >= 2
    /\ UnknownIn(turns[1].toolCalls)
    /\ \E j \in 1..Len(messages) : messages[j].content = "Unknown tool: bogus"

-----------------------------------------------------------------------------
(* The claims about Engine.executeTool, under ExecSpec.                    *)

\* The names of alts that are in reg, in the order of alts, separated by ", ".
RECURSIVE Listing(_, _)
Listing(alts, reg) ==
    IF alts = <<>> THEN ""
    ELSE LET rest == Listing(Tail(alts), reg)
         IN  IF Head(alts) \notin reg THEN rest
             ELSE IF rest = "" THEN Head(alts)
             ELSE Head(alts) \o ", " \o rest

\* C11: when the handler returned an error, the result is an error result whose
\* text is "Error: <message>", followed by " (alternatives: ...)" listing in
\* table order exactly the registered alternatives of the tool, and by nothing
\* when the tool has no table entry or no alternative of it is registered.
C11_AlternativesSuffix ==
    (xt.pc = "done" /\ xt.herr # "") =>
        LET alts == IF xt.name \in DOMAIN ToolAlts THEN ToolAlts[xt.name] ELSE <<>>
            list == Listing(alts, e.toolFuncs)
            others == e.toolFuncs \ {xt.name}
        IN  /\ xt.isError
            /\ xt.output = IF list = "" THEN "Error: " \o xt.herr
                           ELSE "Error: " \o xt.herr \o " (alternatives: " \o list \o ")"
            /\ xt.name = "save_memory" => xt.output = "Error: boom"
            /\ (xt.name = "read_file" /\ others \subseteq {"save_memory"}) =>
                    xt.output = "Error: boom"
            /\ (xt.name = "read_file" /\ {"list_files", "glob", "search_files"} \subseteq others) =>
                    xt.output = "Error: boom (alternatives: list_files, glob, search_files)"
            /\ (xt.name = "read_file" /\ "list_files" \notin others
                    /\ {"glob", "search_files"} \subseteq others) =>
                    xt.output = "Error: boom (alternatives: glob, search_files)"
            /\ (xt.name = "glob" /\ "list_files" \notin others /\ "search_files" \in others) =>
                    xt.output = "Error: boom (alternatives: search_files)"

\* C11 witness: the handler of read_file failed while glob and search_files, but
\* not list_files, are registered.
C11_Witness ==
    /\ xt.pc = "done" /\ xt.herr # ""
    /\ xt.name = "read_file"
    /\ e.toolFuncs = {"read_file", "glob", "search_files"}

\* C12: for a registered tool not marked safe on an engine with an approver, the
\* approver is called first; when it denies or fails, the handler is never
\* called and the result is an error result that starts with "Error: ".  For a
\* safe tool, or without an approver, the approver is never called.
C12_ApprovalBeforeHandler ==
    LET registered == xt.name \in e.toolFuncs
        needs == registered /\ ~IsSafe(e, xt.name) /\ e.approver
        calls == {xt.trace[i] : i \in 1..Len(xt.trace)}
    IN  xt.pc # "call" =>
            /\ needs =>
                /\ xt.trace # <<>> /\ xt.trace[1] = "approver"
                /\ xt.answer \in {"no", "err"} =>
                    /\ xt.pc = "done"
                    /\ "handler" \notin calls
                    /\ xt.isError
                    /\ HasPrefix(xt.output, "Error: ")
                /\ xt.answer = "yes" => xt.trace = <<"approver", "handler">>
            /\ (~needs) => "approver" \notin calls
            /\ (registered /\ ~needs) => xt.trace = <<"handler">>

\* C12 witness: the approver denied the unsafe tool glob.
C12_Witness ==
    /\ xt.pc = "done" /\ xt.name = "glob"
    /\ xt.answer = "no" /\ xt.trace = <<"approver">>

\* C13 as claimed: while a Chat call runs in autonomous mode, the approver is
\* never consulted, and no tool call is refused for want of approval.
C13_Original ==
    opts.Autonomous =>
        /\ \A p \in invoked : p[1] # "approver"
        /\ \A k \in 1..Len(outs) : \A i \in 1..Len(outs[k].produced) :
            outs[k].produced[i].output # "Error: Tool not approved by user"

\* C14: a batch has one goroutine per call, and the step that leaves the batch
\* (the result messages are appended, the loop goes on to the next request) is
\* taken only when every goroutine has finished and stored its result: no
\* handler is running then, and one tool message per call is appended.
C14_JoinWaitsForAll ==
    [][ /\ pc = "tools" => /\ Len(gstate) = Len(toolCalls)
                           /\ Len(results) = Len(toolCalls)
        /\ (pc = "tools" /\ pc' # "tools") =>
            /\ \A i \in 1..Len(toolCalls) :
                /\ gstate[i] = "done"
                /\ results[i] = produced[i]
                /\ results[i].id = toolCalls[i].id
            /\ Len(order) = Len(toolCalls)
            /\ Len(messages') = Len(messages) + Len(toolCalls)
            /\ rpc' = "idle"
      ]_vars

\* C14 witness: a batch of two was joined after the handler of its first call
\* had returned last.
C14_Witness ==
    /\ pc = "start" /\ outs # <<>>
    /\ Len(outs[Len(outs)].order) = 2
    /\ outs[Len(outs)].order[2] = 1
    /\ <<"handler", "run_command">> \in invoked
    /\ outs[Len(outs)].produced[1].output = "out"

-----------------------------------------------------------------------------
(* The claims about Engine.processStreamResponse, under StreamSpec.        *)

\* The deltas of position p received so far, in the order of its script.
Consumed(p) == SubSeq(sp.plan[p], 1, Len(sp.plan[p]) - Len(sp.pending[p]))

\* The positions that received at least one delta.
Received == {p \in DOMAIN sp.plan : Consumed(p) # <<>>}

RECURSIVE LastId(_)
LastId(ds) ==
    IF ds = <<>> THEN ""
    ELSE IF ds[Len(ds)].id # "" THEN ds[Len(ds)].id
    ELSE LastId(SubSeq(ds, 1, Len(ds) - 1))

AllNames(ds) == Concat([i \in 1..Len(ds) |-> ds[i].name])
AllArgs(ds)  == Concat([i \in 1..Len(ds) |-> ds[i].args])

\* C15: whatever the interleaving of the positions' deltas, the record assembled
\* for a position depends on that position's deltas only: its name and its
\* arguments are the concatenations, in order, of all name and argument
\* fragments received for it, and its id is the last non-empty id received for
\* it; every request returned at the end of the stream is such a record, the
\* requests are returned in ascending position order, and which positions are
\* returned depends only on the set of positions received and on the finish
\* reason.
C15_InterleavingIndependent ==
    /\ DOMAIN sp.toolCallsMap = Received
    /\ \A p \in Received :
        /\ sp.toolCallsMap[p].name = AllNames(Consumed(p))
        /\ sp.toolCallsMap[p].args = AllArgs(Consumed(p))
        /\ sp.toolCallsMap[p].id = LastId(Consumed(p))
    /\ sp.pc = "done" =>
        LET out == sp.result.toolCalls
        IN  \E pos \in [1..Len(out) -> Received] :
                /\ \A j \in 1..Len(out) :
                    /\ out[j].name = AllNames(Consumed(pos[j]))
                    /\ out[j].args = AllArgs(Consumed(pos[j]))
                    /\ out[j].id = LastId(Consumed(pos[j]))
                /\ \A j \in 1..(Len(out) - 1) : pos[j] < pos[j + 1]
                /\ {pos[j] : j \in 1..Len(out)} =
                        IF sp.result.err = NilErr /\ sp.finishReason = "tool_calls"
                        THEN {p \in Received : p < Cardinality(Received)}
                        ELSE {}

\* C15 witness: two requests were returned, one assembled from three fragments
\* of position 0 and one from three deltas of position 1 whose id changed.
C15_Witness ==
    /\ sp.pc = "done"
    /\ Len(sp.result.toolCalls) = 2
    /\ sp.result.toolCalls[1] =
            [id |-> "call0", type |-> "function", name |-> "echo", args |-> "{a}"]
    /\ sp.result.toolCalls[2] =
            [id |-> "call1b", type |-> "function", name |-> "run_command", args |-> "xy"]

\* C16: when the stream ended and the finish reason then held is not tool_calls,
\* no tool-call request is returned, whatever deltas were received.
C16_NoCallsWithoutFinishReason ==
    (sp.pc = "done" /\ sp.finishReason # "tool_calls") => sp.result.toolCalls = <<>>

\* C16 witness: the stream ended with finish reason stop after deltas of two
\* positions had been assembled.
C16_Witness ==
    /\ sp.pc = "done" /\ sp.result.err = NilErr
    /\ sp.finishReason = "stop"
    /\ Cardinality(DOMAIN sp.toolCallsMap) = 2

\* The records of the positions in S, in ascending position order.
RECURSIVE Ascending(_, _)
Ascending(m, S) ==
    IF S = {} THEN <<>>
    ELSE LET lo == CHOOSE p \in S : \A q \in S : p <= q
         IN  <<m[lo]>> \o Ascending(m, S \ {lo})

\* C17 as claimed: when the stream ended with finish reason tool_calls, the
\* requests returned are the records of all positions that received a delta,
\* in ascending position order, also when those positions are not 0..n-1.
C17_Original ==
    (sp.pc = "done" /\ sp.result.err = NilErr /\ sp.finishReason = "tool_calls") =>
        sp.result.toolCalls = Ascending(sp.toolCallsMap, Received)

-----------------------------------------------------------------------------
(* The claims about Engine.compressContext, under CompressSpec.            *)

\* Every assistant message with tool calls is directly followed by one tool
\* message per call, with the call's id.
BlocksComplete(log) ==
    \A a \in 1..Len(log) :
        LET calls == log[a].toolCalls
        IN  calls # NoCalls =>
                /\ a + Len(calls) <= Len(log)
                /\ \A k \in 1..Len(calls) :
                    /\ log[a + k].role = "tool"
                    /\ log[a + k].toolCallID = calls[k].id

IsSummaryMsg(m) == m.role = "user" /\ HasPrefix(m.content, SummaryPreamble)

\* The call returned a log other than the one it was given.
CompressSpliced == cc.pc = "done" /\ cc.out # cc.in

\* C18: when a log with complete tool blocks is spliced, the summary message is
\* directly followed by the acknowledgment, the acknowledgment by a user
\* message of the log, the tool blocks of the result are complete, and each tool
\* block of the log lies wholly in the summarized span or wholly outside it.
C18_SpliceKeepsBlocks ==
    (CompressSpliced /\ BlocksComplete(cc.in)) =>
        LET w == CompressWindow(e, cc.in)
            InSpan(i) == w.start < i /\ i <= w.end
        IN  /\ \E j \in 1..(Len(cc.out) - 2) :
                /\ IsSummaryMsg(cc.out[j])
                /\ cc.out[j + 1] = AssistantMsg(AckText)
                /\ cc.out[j + 2].role = "user"
                /\ cc.out[j + 2] = cc.in[Len(cc.in) - (Len(cc.out) - (j + 2))]
                /\ \A i \in 1..Len(cc.out) : IsSummaryMsg(cc.out[i]) => i = j
            /\ BlocksComplete(cc.out)
            /\ WellFormed(cc.in) => WellFormed(cc.out)
            /\ \A a \in 1..Len(cc.in) : \A k \in 1..Len(cc.in[a].toolCalls) :
                InSpan(a) <=> InSpan(a + k)

\* C18 witness: a splice whose span ends right after a block of two tool
\* results, behind a system message.
C18_Witness ==
    /\ CompressSpliced /\ BlocksComplete(cc.in)
    /\ cc.in = <<SystemMsg("sys"), AssistantCalls(TwoCalls),
                 ToolMsg("rr", "c1"), ToolMsg("rr", "c2"), UserMsg("uu")>>

\* The characters of all contents and of all tool-call arguments of a log.
RECURSIVE TotalChars(_)
TotalChars(log) ==
    IF log = <<>> THEN 0
    ELSE LET m == log[Len(log)]
         IN  TotalChars(SubSeq(log, 1, Len(log) - 1))
                + Len(m.content)
                + Len(Concat([i \in 1..Len(m.toolCalls) |-> m.toolCalls[i].args]))

\* C19: a log whose character count is strictly below the threshold is
\* returned as it is, and no summarization call is made for it.
C19_BelowThresholdUnchanged ==
    TotalChars(cc.in) < e.compressThreshold =>
        /\ cc.pc # "summarize"
        /\ ~cc.asked
        /\ cc.pc = "done" => cc.out = cc.in

\* C19 witness: a log of five messages and eleven characters, more than the
\* character cap and fewer than the threshold, was returned.
C19_Witness ==
    /\ cc.pc = "done"
    /\ cc.in = <<UserMsg("uu"), AssistantMsg("aaa"), UserMsg("uu"),
                 UserMsg("uu"), UserMsg("uu")>>
    /\ TotalChars(cc.in) < e.compressThreshold
    /\ TotalChars(cc.in) > e.maxContextChars

\* The position of the first system message of a log, 0 when it has none.
FirstSystem(log) ==
    IF \A i \in 1..Len(log) : log[i].role # "system" THEN 0
    ELSE CHOOSE i \in 1..Len(log) :
            log[i].role = "system" /\ \A j \in 1..(i - 1) : log[j].role # "system"

\* C20: a spliced log is the log up to and including its first system message,
\* then the user message "[Previous conversation summary]\n" + summary and the
\* acknowledgment, then the messages of the log from a cut point on; at least
\* one message lies between the system message and the cut, and at least one
\* from the cut on.
C20_SpliceShape ==
    CompressSpliced =>
        LET s == FirstSystem(cc.in)
            n == Len(cc.in)
        IN  /\ cc.asked
            /\ Concat(cc.ans.chunks) # ""
            /\ \E k \in (s + 2)..n :
                cc.out = SubSeq(cc.in, 1, s)
                            \o <<UserMsg("[Previous conversation summary]\n" \o Concat(cc.ans.chunks)),
                                 AssistantMsg("Understood. I have the context from our previous conversation.")>>
                            \o SubSeq(cc.in, k, n)

\* C20 witness: a splice that keeps a system message in second place and the
\* last two messages of the log.
C20_Witness ==
    /\ CompressSpliced
    /\ cc.in[2].role = "system"
    /\ Len(cc.in) = 5
    /\ Len(cc.out) = 6

-----------------------------------------------------------------------------
(* The claims about the summarization call.                                *)

\* C21: the step of Chat in which a summarization call is made and gives no
\* summary (the request is refused, or the stream gives no text) leaves the log
\* as it was, calls no compression observer, returns nothing to the caller and
\* leaves Chat at the first attempt of the pass's model request; and from there
\* the next step of Chat hands that request to the client.
C21_FailedSummaryIsSkipped ==
    [][ /\ (~hist.summaryFailed /\ hist'.summaryFailed) =>
            /\ pc = "compress" /\ CompressWindow(e, messages).ok
            /\ messages' = messages
            /\ hist'.notified = hist.notified
            /\ ~ret'.returned
            /\ pc' = "request" /\ rpc' = "create" /\ attempt' = 0
            /\ runner'.requests = 0
        /\ (pc = "request" /\ rpc = "create" /\ cancelled' = cancelled) =>
            runner'.requests = runner.requests + 1
        /\ (ret'.returned /\ ret'.err = NilErr /\ hist'.summaryFailed /\ ~hist'.notified) =>
            ~Spliced(ret'.msgs)
      ]_vars

\* C21 witness: the summarization failed, no observer was called, and the model
\* request of the pass went out and was answered.
C21_Witness ==
    /\ hist.summaryFailed /\ ~hist.notified
    /\ Len(seed) > 1
    /\ turns # <<>> /\ ~Spliced(messages)
    /\ ret.returned /\ ret.err = NilErr

\* C22 as claimed: when the summarization stream fails with a transport error
\* after some text was received, the log is returned unchanged.
C22_Original ==
    ( /\ cc.pc = "done" /\ cc.asked
      /\ cc.ans.created /\ ~cc.ans.eof /\ cc.ans.chunks # <<>> ) =>
        cc.out = cc.in

\* C23 as claimed: a summarization request that fails on transport is retried:
\* compression is given up only after MaxRetries + 1 requests.
C23_Original ==
    (cc.pc = "done" /\ cc.asked /\ ~cc.ans.created) =>
        cc.requests = e.maxRetries + 1

\* C24 as claimed: every call of compressContext returns, also when the client
\* never answers the summarization request and nobody cancels.
C24_Original == <>(cc.pc = "done")

-----------------------------------------------------------------------------
(* Engine.RegisterTool: any sequence of registrations on a new engine, as  *)
(* made at startup by the built-in tools, the plugins and the MCP servers. *)

MaxRegs == 3

\* The names of TestRegisterTool_Multiple.
RegistryNames == {"tool_a", "tool_b", "tool_c"}

RegistryInit ==
    /\ NoChat
    /\ e = New(UnsetConfig(TRUE))
    /\ xt = NoUnit /\ sp = NoUnit /\ cc = NoUnit /\ NoLate

Register ==
    /\ Len(e.tools) < MaxRegs
    /\ \E name \in RegistryNames, safe \in BOOLEAN :
        e' = RegisterTool(e, name, safe)
    /\ UNCHANGED <<chatAll, unitVars>>

RegistryNext == Register

RegistrySpec == RegistryInit /\ [][RegistryNext]_vars

\* C25 as claimed: after any sequence of RegisterTool calls the declaration
\* list holds at most one entry per tool name, as the handler and trust maps do.
C25_Original ==
    /\ \A i, j \in 1..Len(e.tools) : e.tools[i] = e.tools[j] => i = j
    /\ \A p, q \in e.toolMeta : p[1] = q[1] => p = q

-----------------------------------------------------------------------------
(* The engine's shared state under concurrent use: one goroutine runs      *)
(* Engine.chat and Engine.executeTool of a Chat call while another, the    *)
(* host program, calls SetClient, SetModel and RegisterTool.  e.mu is the  *)
(* one mutex of the engine; every access to client, model, tools,          *)
(* toolFuncs and toolMeta is a step, made with or without e.mu held, as    *)
(* the code makes it.  A write made without the mutex takes two steps, and *)
(* a read of the same field between them is a data race: what it sees is   *)
(* any of the old value, the new value or a mix of the two.                *)

MaxHostCalls == 2

guardOthers == <<chatAll, xt, sp, cc, il, tm, nw, lastUnits>>

HostOps == {"SetClient", "SetModel", "RegisterTool"}

NoSeen == [model |-> "", client |-> "", tools |-> "", toolFuncs |-> ""]

GuardInit ==
    /\ NoChat
    /\ e = New(UnsetConfig(TRUE))
    /\ lk = [pc |-> "lock", hpc |-> "idle", hop |-> "", calls |-> 0, mu |-> "",
             client |-> 0, model |-> 0, writing |-> "",
             attempt |-> 0, currentModel |-> 0, reqs |-> <<>>,
             seen |-> NoSeen, unguarded |-> {}]
    /\ xt = NoUnit /\ sp = NoUnit /\ cc = NoUnit
    /\ il = NoUnit /\ tm = NoUnit /\ nw = NoUnit /\ NoLast

\* The accesses made so far without e.mu held, after who makes one more.
Access(who, field, kind) ==
    IF lk.mu = who THEN lk.unguarded
    ELSE lk.unguarded \cup {<<who, field, kind>>}

\* What a read of field can see.
ReadOutcomes(field) ==
    IF lk.writing = field THEN {"old", "new", "mixed"} ELSE {"current"}

\* e.mu.Lock() in Engine.chat
GuardChatLock ==
    /\ lk.pc = "lock" /\ lk.mu = ""
    /\ lk' = [lk EXCEPT !.pc = "model", !.mu = "chat"]
    /\ UNCHANGED <<e, guardOthers>>

\* currentModel := e.model
GuardChatReadModel ==
    /\ lk.pc = "model"
    /\ \E o \in ReadOutcomes("model") :
        lk' = [lk EXCEPT !.pc = "unlock", !.seen.model = o, !.currentModel = lk.model,
                         !.unguarded = Access("chat", "model", "read")]
    /\ UNCHANGED <<e, guardOthers>>

\* e.mu.Unlock()
GuardChatUnlock ==
    /\ lk.pc = "unlock"
    /\ lk' = [lk EXCEPT !.pc = "client", !.mu = ""]
    /\ UNCHANGED <<e, guardOthers>>

\* e.client.CreateChatCompletionStream(...)
GuardChatReadClient ==
    /\ lk.pc = "client"
    /\ \E o \in ReadOutcomes("client") :
        lk' = [lk EXCEPT !.pc = "tools", !.seen.client = o,
                         !.reqs = Append(@, [client |-> lk.client,
                                             model |-> lk.currentModel]),
                         !.unguarded = Access("chat", "client", "read")]
    /\ UNCHANGED <<e, guardOthers>>

\* Tools: e.tools in the request
GuardChatReadTools ==
    /\ lk.pc = "tools"
    /\ \E o \in ReadOutcomes("tools") :
        lk' = [lk EXCEPT !.pc = "lookup", !.seen.tools = o,
                         !.unguarded = Access("chat", "tools", "read")]
    /\ UNCHANGED <<e, guardOthers>>

\* The request or its stream failed: lastErr = err; continue, and the next
\* attempt reads the model and the client again.
GuardChatRetry ==
    /\ lk.pc = "lookup" /\ lk.attempt < e.maxRetries
    /\ lk' = [lk EXCEPT !.pc = "lock", !.attempt = @ + 1]
    /\ UNCHANGED <<e, guardOthers>>

\* fn, ok := e.toolFuncs[name]; meta := e.toolMeta[name] in executeTool
GuardChatLookup ==
    /\ lk.pc = "lookup"
    /\ \E o \in ReadOutcomes("toolFuncs") :
        lk' = [lk EXCEPT !.pc = "done", !.seen.toolFuncs = o,
                         !.unguarded = Access("chat", "toolFuncs", "read")]
    /\ UNCHANGED <<e, guardOthers>>

\* The host program calls one of the three operations.
GuardHostCall ==
    /\ lk.hpc = "idle" /\ lk.calls < MaxHostCalls
    /\ \E op \in HostOps :
        lk' = [lk EXCEPT !.hop = op, !.calls = @ + 1,
                         !.hpc = IF op = "RegisterTool" THEN "tools" ELSE "lock"]
    /\ UNCHANGED <<e, guardOthers>>

\* e.mu.Lock() in SetClient and SetModel
GuardHostLock ==
    /\ lk.hpc = "lock" /\ lk.mu = ""
    /\ lk' = [lk EXCEPT !.hpc = "write", !.mu = "host"]
    /\ UNCHANGED <<e, guardOthers>>

\* e.client = client; e.model = model
GuardHostWrite ==
    /\ lk.hpc = "write"
    /\ lk' = IF lk.hop = "SetClient"
             THEN [lk EXCEPT !.hpc = "unlock", !.client = @ + 1,
                             !.unguarded = Access("host", "client", "write")]
             ELSE [lk EXCEPT !.hpc = "unlock", !.model = @ + 1,
                             !.unguarded = Access("host", "model", "write")]
    /\ UNCHANGED <<e, guardOthers>>

\* defer e.mu.Unlock()
GuardHostUnlock ==
    /\ lk.hpc = "unlock"
    /\ lk' = [lk EXCEPT !.hpc = "idle", !.mu = ""]
    /\ UNCHANGED <<e, guardOthers>>

\* RegisterTool begins one of its writes: e.tools = append(...), then
\* e.toolFuncs[name] = fn and e.toolMeta[name] = ...
GuardHostWriteBegin ==
    /\ lk.hpc \in {"tools", "toolFuncs"}
    /\ lk' = [lk EXCEPT !.writing = lk.hpc,
                        !.hpc = IF lk.hpc = "tools" THEN "toolsEnd" ELSE "toolFuncsEnd",
                        !.unguarded = Access("host", lk.hpc, "write")]
    /\ UNCHANGED <<e, guardOthers>>

\* The write is complete.
GuardHostWriteEnd ==
    /\ lk.hpc \in {"toolsEnd", "toolFuncsEnd"}
    /\ IF lk.hpc = "toolsEnd"
       THEN /\ e' = [e EXCEPT !.tools = Append(@, "tool_a")]
            /\ lk' = [lk EXCEPT !.writing = "", !.hpc = "toolFuncs"]
       ELSE /\ e' = [e EXCEPT !.toolFuncs = @ \cup {"tool_a"},
                              !.toolMeta = {p \in @ : p[1] # "tool_a"} \cup {<<"tool_a", FALSE>>}]
            /\ lk' = [lk EXCEPT !.writing = "", !.hpc = "idle"]
    /\ UNCHANGED guardOthers

GuardNext ==
    \/ GuardChatLock \/ GuardChatReadModel \/ GuardChatUnlock
    \/ GuardChatReadClient \/ GuardChatReadTools \/ GuardChatRetry \/ GuardChatLookup
    \/ GuardHostCall \/ GuardHostLock \/ GuardHostWrite \/ GuardHostUnlock
    \/ GuardHostWriteBegin \/ GuardHostWriteEnd

GuardSpec == GuardInit /\ [][GuardNext]_vars

\* C26 as claimed: every read and every write of the engine's client, model
\* and tool registry is made while holding e.mu, and no read sees a value that
\* another goroutine is in the middle of writing.
C26_Original ==
    /\ lk.unguarded = {}
    /\ \A f \in DOMAIN lk.seen : lk.seen[f] \in {"", "current"}

-----------------------------------------------------------------------------
(* The interactive loop of the CLI (runInteractiveLoop) and its interrupt  *)
(* handler.  The loop calls runChat once per input; runChat makes a        *)
(* context, stores its cancel function in chatCancel under chatMu, runs    *)
(* the turn, and on return sets chatCancel to nil and calls cancel.  The   *)
(* handler goroutine receives from sigCh, a channel of capacity 1 that     *)
(* the runtime fills on SIGINT, reads chatCancel under chatMu and calls    *)
(* what it read after releasing chatMu.  A context is named by the number  *)
(* of the input it was made for; 0 stands for a nil cancel function.       *)

MaxInputs == 2
MaxSignals == 2

\* A faulty variant of NewCtx: one context serves every input.
NewCtxShared(n) == 1

\* ctx, cancel := context.WithCancel(context.Background()) for input n
NewCtx(n) == n

loopOthers == <<e, chatAll, xt, sp, cc, lk, tm, nw, lastUnits>>

NoSignal == [idle |-> FALSE]

LoopInit ==
    /\ NoChat
    /\ e = New(UnsetConfig(TRUE))
    /\ il = [pc |-> "input", inputs |-> 0, ctx |-> 0, chatCancel |-> 0, done |-> {},
             sigCh |-> <<>>, signals |-> 0,
             hpc |-> "recv", cur |-> NoSignal, local |-> 0, handled |-> 0,
             quit |-> FALSE, hits |-> {}]
    /\ xt = NoUnit /\ sp = NoUnit /\ cc = NoUnit
    /\ lk = NoUnit /\ tm = NoUnit /\ nw = NoUnit /\ NoLast

\* case input = <-inputCh, then runChat is entered and makes its context.
LoopInput ==
    /\ il.pc = "input" /\ il.inputs < MaxInputs
    /\ il' = [il EXCEPT !.pc = "ctx", !.inputs = @ + 1, !.ctx = NewCtx(il.inputs + 1)]
    /\ UNCHANGED loopOthers

\* case <-quitCh: return
LoopQuit ==
    /\ il.pc = "input" /\ il.quit
    /\ il' = [il EXCEPT !.pc = "exit"]
    /\ UNCHANGED loopOthers

\* chatMu.Lock(); chatCancel = cancel; chatMu.Unlock()
LoopRegister ==
    /\ il.pc = "ctx"
    /\ il' = [il EXCEPT !.pc = "run", !.chatCancel = il.ctx]
    /\ UNCHANGED loopOthers

\* The turn ends, by itself or because its context is done; the deferred
\* function runs chatMu.Lock(); chatCancel = nil; chatMu.Unlock().
LoopTurnEnds ==
    /\ il.pc = "run"
    /\ il' = [il EXCEPT !.pc = "unreg", !.chatCancel = 0]
    /\ UNCHANGED loopOthers

\* cancel() of the deferred function, then runChat returns to the loop.
LoopRelease ==
    /\ il.pc = "unreg"
    /\ il' = [il EXCEPT !.pc = "input", !.done = @ \cup {il.ctx}]
    /\ UNCHANGED loopOthers

\* SIGINT: the runtime sends on sigCh without blocking, so a signal that
\* finds the channel full is dropped.  idle: no turn was running.
LoopInterrupt ==
    /\ il.signals < MaxSignals
    /\ il' = [il EXCEPT !.signals = @ + 1,
                        !.sigCh = IF Len(@) < 1
                                  THEN Append(@, [idle |-> il.pc = "input"])
                                  ELSE @]
    /\ UNCHANGED loopOthers

\* for range sigCh
HandlerRecv ==
    /\ il.hpc = "recv" /\ il.sigCh # <<>>
    /\ il' = [il EXCEPT !.hpc = "read", !.cur = Head(il.sigCh), !.sigCh = Tail(@)]
    /\ UNCHANGED loopOthers

\* chatMu.Lock(); cancel := chatCancel; chatMu.Unlock()
HandlerRead ==
    /\ il.hpc = "read"
    /\ il' = [il EXCEPT !.hpc = "cancel", !.local = il.chatCancel]
    /\ UNCHANGED loopOthers

\* if cancel != nil { cancel() }, then the double-interrupt test: a second
\* interrupt within 500ms closes quitCh and ends the handler.
HandlerCancel ==
    /\ il.hpc = "cancel"
    /\ \E quick \in (IF il.handled > 0 THEN BOOLEAN ELSE {FALSE}) :
        LET now == IF il.local # 0 THEN il.done \cup {il.local} ELSE il.done
        IN  il' = [il EXCEPT
                    !.done = now,
                    !.hits = @ \cup {[read |-> il.local, idle |-> il.cur.idle,
                                      cancelled |-> now \ il.done]},
                    !.handled = @ + 1,
                    !.quit = @ \/ quick,
                    !.hpc = IF quick THEN "exit" ELSE "recv"]
    /\ UNCHANGED loopOthers

LoopNext ==
    \/ LoopInput \/ LoopQuit \/ LoopRegister \/ LoopTurnEnds \/ LoopRelease
    \/ LoopInterrupt \/ HandlerRecv \/ HandlerRead \/ HandlerCancel

LoopSpec == LoopInit /\ [][LoopNext]_vars

\* C27 as claimed: every turn starts under a context that is not cancelled,
\* and an interrupt that arrives while no turn is running cancels nothing.
C27_Original ==
    /\ il.pc = "ctx" => il.ctx \notin il.done
    /\ \A h \in il.hits : h.idle => h.cancelled = {}

\* C27, amended: every turn starts under a context that is not cancelled,
\* whatever interrupts were handled before; a running turn is cancelled only
\* by an interrupt whose handler read that turn's cancel function from
\* chatCancel; an interrupt cancels at most the context whose cancel function
\* its handler read, and nothing when it read nil.
C27_FreshSignalPerInput ==
    /\ il.pc = "ctx" => il.ctx \notin il.done
    /\ (il.pc = "run" /\ il.ctx \in il.done) =>
            \E h \in il.hits : h.read = il.ctx /\ h.cancelled = {il.ctx}
    /\ \A h \in il.hits :
        /\ h.read = 0 => h.cancelled = {}
        /\ h.cancelled \subseteq {h.read}

\* The first turn was cancelled by an interrupt, the second is running under
\* its own context, and the handler still holds the first turn's cancel function.
C27_Witness ==
    /\ il.pc = "run" /\ il.ctx = 2 /\ 2 \notin il.done
    /\ \E h \in il.hits : h.read = 1 /\ h.cancelled = {1}
    /\ il.hpc = "cancel" /\ il.local = 1

-----------------------------------------------------------------------------
(* truncateMessages of the session store, on any log and any limit.        *)

MaxSession == 4

truncOthers == <<e, chatAll, xt, sp, cc, lk, il, nw, lastUnits>>

\* Any log of LogMessages, well-formed or not.
SessionLogs == UNION { [1..n -> LogMessages] : n \in 0..MaxSession }

\* msgs = msgs[1:] while msgs[0].Role != user
RECURSIVE DropNonUser(_)
DropNonUser(msgs) ==
    IF msgs # <<>> /\ Head(msgs).role # "user" THEN DropNonUser(Tail(msgs)) ELSE msgs

\* A faulty variant of truncateMessages: the last max messages as they are.
truncateMessagesKeepsLast(msgs, max) ==
    IF Len(msgs) <= max THEN msgs
    ELSE SubSeq(msgs, Len(msgs) - max + 1, Len(msgs))

truncateMessages(msgs, max) ==
    IF Len(msgs) <= max THEN msgs
    ELSE DropNonUser(SubSeq(msgs, Len(msgs) - max + 1, Len(msgs)))

TruncInit ==
    /\ NoChat
    /\ e = New(UnsetConfig(TRUE))
    /\ \E log \in SessionLogs, max \in 0..(MaxSession + 1) :
        tm = [pc |-> "call", in |-> log, max |-> max, out |-> <<>>]
    /\ xt = NoUnit /\ sp = NoUnit /\ cc = NoUnit
    /\ lk = NoUnit /\ il = NoUnit /\ nw = NoUnit /\ NoLast

Truncate ==
    /\ tm.pc = "call"
    /\ tm' = [tm EXCEPT !.pc = "done", !.out = truncateMessages(tm.in, tm.max)]
    /\ UNCHANGED truncOthers

TruncNext == Truncate

TruncSpec == TruncInit /\ [][TruncNext]_vars

\* C28: truncateMessages(msgs, max) returns msgs when len(msgs) <= max;
\* otherwise it returns the suffix of msgs that is left of the last max
\* messages when their leading non-user messages are dropped: of length at
\* most max, and empty or starting with a user message.  For a well-formed
\* log the result is well-formed: every tool result in it follows the
\* assistant message that requested it.
C28_TruncateKeepsUserSuffix ==
    tm.pc = "done" =>
        LET n == Len(tm.in)
            k == Len(tm.out)
        IN  /\ n <= tm.max => tm.out = tm.in
            /\ n > tm.max =>
                /\ k <= tm.max
                /\ \A i \in 1..k : tm.out[i] = tm.in[n - k + i]
                /\ k > 0 => tm.out[1].role = "user"
                /\ \A j \in (k + 1)..tm.max : tm.in[n - j + 1].role # "user"
            /\ WellFormed(tm.in) => WellFormed(tm.out)

\* A well-formed log one longer than the limit: the cut falls between a tool
\* call and its result, and the result is dropped with the messages before
\* the next user message.
C28_Witness ==
    /\ tm.pc = "done" /\ tm.max = 3
    /\ tm.in = <<AssistantCalls(<<Call("c1", "echo", "hello")>>), ToolMsg("rr", "c1"),
                 UserMsg("uu"), AssistantMsg("aaa")>>
    /\ tm.out = <<UserMsg("uu"), AssistantMsg("aaa")>>

-----------------------------------------------------------------------------
(* Engine.chat with larger retry budgets: the first pass of a Chat call on *)
(* the short log, up to the end of its model request.  The budget is any   *)
(* of 1..MaxBudget or left unset, which New turns into the default 3.      *)

MaxBudget == 4

RetryInit ==
    /\ \E r \in 0..MaxBudget :
        e = Registered([UnsetConfig(TRUE) EXCEPT !.MaxRetries = r])
    /\ opts = [Autonomous |-> FALSE]
    /\ messages = ShortSeed
    /\ seed = ShortSeed
    /\ cancelled = FALSE
    /\ pc = "start"
    /\ iteration = 0
    /\ rpc = "idle" /\ attempt = 0 /\ lastErr = NilErr /\ runner = NewRunner
    /\ toolCalls = <<>> /\ gstate = <<>> /\ results = <<>>
    /\ order = <<>> /\ produced = <<>>
    /\ ret = NotReturned
    /\ turns = <<>> /\ outs = <<>> /\ invoked = {} /\ hist = NewHist
    /\ xt = NoUnit /\ sp = NoUnit /\ cc = NoUnit /\ NoLate

RetryNext ==
    \/ ChatLoop
    \/ ChatCompress
    \/ RunnerCreate
    \/ RunnerCheck
    \/ RunnerWait
    \/ RunnerStream
    \/ Cancel

RetrySpec == RetryInit /\ [][RetryNext]_vars

RECURSIVE SumSeq(_)
SumSeq(w) == IF w = <<>> THEN 0 ELSE Head(w) + SumSeq(Tail(w))

\* C29: no wait precedes the first attempt; attempt k (k >= 1) is made after
\* exactly k waits, the first of 1 second and each next one twice the one
\* before, so the wait before retry k is 2^(k-1) seconds; a call that
\* exhausts its R retries has waited 2^R - 1 seconds in all.
C29_BackoffDoubles ==
    LET w == runner.waited
    IN  /\ (pc = "request" /\ rpc \in {"create", "stream"}) => Len(w) = attempt
        /\ (pc = "request" /\ rpc \in {"check", "wait"}) => Len(w) = attempt - 1
        /\ \A k \in 1..Len(w) : w[k] = IF k = 1 THEN 1 ELSE 2 * w[k - 1]
        /\ (ret.returned /\ ret.err # NilErr /\ runner.abortAt = "none") =>
                /\ Len(w) = e.maxRetries
                /\ SumSeq(w) = 2 ^ e.maxRetries - 1

\* The default budget of 3 retries exhausted: waits of 1, 2 and 4 seconds.
C29_Witness ==
    /\ ret.returned /\ ret.err # NilErr /\ runner.abortAt = "none"
    /\ e.maxRetries = DefaultMaxRetries
    /\ runner.waited = <<1, 2, 4>>

-----------------------------------------------------------------------------
(* New, on any Config: each of the four numbers negative, zero or positive. *)

MaxField == 2

newOthers == <<e, chatAll, xt, sp, cc, lk, il, tm, lastUnits>>

FieldValues == (0 - MaxField)..MaxField

NewConfigs ==
    [ MaxRetries        : FieldValues,
      MaxAutonomousIter : FieldValues,
      CompressThreshold : FieldValues,
      MaxContextChars   : FieldValues,
      Approver          : {TRUE} ]

NewInit ==
    /\ NoChat
    /\ e = New(UnsetConfig(TRUE))
    /\ \E cfg \in NewConfigs : nw = [pc |-> "call", cfg |-> cfg, eng |-> NoUnit]
    /\ xt = NoUnit /\ sp = NoUnit /\ cc = NoUnit
    /\ lk = NoUnit /\ il = NoUnit /\ tm = NoUnit /\ NoLast

NewCall ==
    /\ nw.pc = "call"
    /\ nw' = [nw EXCEPT !.pc = "done", !.eng = New(nw.cfg)]
    /\ UNCHANGED newOthers

NewNext == NewCall

NewSpec == NewInit /\ [][NewNext]_vars

\* C30: New replaces a zero or negative MaxRetries, MaxAutonomousIter,
\* CompressThreshold or MaxContextChars by 3, 20, 80000 or 100000, and uses a
\* positive value as given; so the engine's retry budget and autonomous cap
\* are never 0.
C30_DefaultsForNonPositive ==
    nw.pc = "done" =>
        LET Chosen(given, default) == IF given <= 0 THEN default ELSE given
        IN  /\ nw.eng.maxRetries = Chosen(nw.cfg.MaxRetries, 3)
            /\ nw.eng.maxAutonomousIter = Chosen(nw.cfg.MaxAutonomousIter, 20)
            /\ nw.eng.compressThreshold = Chosen(nw.cfg.CompressThreshold, 80000)
            /\ nw.eng.maxContextChars = Chosen(nw.cfg.MaxContextChars, 100000)
            /\ nw.eng.maxRetries > 0 /\ nw.eng.maxAutonomousIter > 0

\* A Config with a zero, a negative and a positive field.
C30_Witness ==
    /\ nw.pc = "done"
    /\ nw.cfg.MaxRetries = 0 /\ nw.cfg.MaxAutonomousIter = 0 - 1
    /\ nw.cfg.CompressThreshold = MaxField /\ nw.cfg.MaxContextChars = 0
    /\ nw.eng.maxRetries = 3 /\ nw.eng.maxAutonomousIter = 20
    /\ nw.eng.compressThreshold = MaxField /\ nw.eng.maxContextChars = 100000

-----------------------------------------------------------------------------
(* Engine.processStreamResponse on a stream that carries text: content and *)
(* reasoning deltas, finish reasons, chunks without choices and at most    *)
(* one tool call, with both observers of ChatOptions set.                  *)

MaxChunks == 3

Chunk(content, reasoning, reason) ==
    [content |-> content, reasoning |-> reasoning, reason |-> reason]

\* The choices without tool-call deltas a stream is made of.
TextChunks ==
    { Chunk("a", "", ""), Chunk("b", "", ""), Chunk("", "t", ""), Chunk("a", "t", ""),
      Chunk("", "", "tool_calls"), Chunk("", "", "stop"), Chunk("", "", "") }

TextPlans == {NoMap} \cup { [p \in {0} |-> Script(0, k)] : k \in 1..2 }

\* A faulty variant of TextAfter: the reasoning text is written to the text too.
TextAfterWithReasoning(text, content, reasoning) == text \o reasoning \o content

\* fullContent.WriteString(content)
TextAfter(text, content, reasoning) == text \o content

\* A chunk whose choice is c: the observers are called, the content is
\* appended to the text.
StreamText(c) ==
    /\ sp.pc = "recv" /\ sp.chunks < MaxChunks
    /\ sp' = [sp EXCEPT
                !.chunks = @ + 1,
                !.arrived = Append(@, c),
                !.lastReason = c.reason,
                !.finishReason = NextReason(@, c.reason),
                !.onReasoning = IF c.reasoning # "" THEN Append(@, c.reasoning) ELSE @,
                !.onContent = IF c.content # "" THEN Append(@, c.content) ELSE @,
                !.content = IF c.content # "" THEN TextAfter(@, c.content, c.reasoning) ELSE @]
    /\ UNCHANGED <<e, chatAll, xt, cc, lateUnits>>

TextInit ==
    /\ NoChat
    /\ e = New(UnsetConfig(FALSE))
    /\ \E plan \in TextPlans : sp = NewStream(plan)
    /\ xt = NoUnit /\ cc = NoUnit /\ NoLate

TextNext ==
    \/ \E p \in 0..MaxIndex : StreamDelta(p)
    \/ \E c \in TextChunks : StreamText(c)
    \/ StreamNoChoice
    \/ StreamEOF
    \/ StreamFails

TextSpec == TextInit /\ [][TextNext]_vars

\* The non-empty members of a sequence of texts, in order.
NonEmpty(texts) == SelectSeq(texts, LAMBDA x : x # "")

Contents(chunks) == [i \in 1..Len(chunks) |-> chunks[i].content]
Reasonings(chunks) == [i \in 1..Len(chunks) |-> chunks[i].reasoning]

\* C31: the content observer has been handed the non-empty content deltas
\* received so far, each once and in arrival order, and the reasoning observer
\* the non-empty reasoning deltas; the text returned by a stream that ended
\* without error is the concatenation of the content deltas in arrival order,
\* with no reasoning text in it.
C31_TextIsContentDeltas ==
    /\ sp.onContent = NonEmpty(Contents(sp.arrived))
    /\ sp.onReasoning = NonEmpty(Reasonings(sp.arrived))
    /\ (sp.pc = "done" /\ sp.result.err = NilErr) =>
            sp.result.content = Concat(NonEmpty(Contents(sp.arrived)))

\* A stream of three chunks, one of them with content and reasoning at once.
C31_Witness ==
    /\ sp.pc = "done" /\ sp.result.err = NilErr
    /\ sp.arrived = <<Chunk("a", "t", ""), Chunk("", "t", ""), Chunk("b", "", "")>>
    /\ sp.result.content = "ab"
    /\ sp.onContent = <<"a", "b">> /\ sp.onReasoning = <<"t", "t">>

\* C34: when the stream ended without error, tool calls are returned exactly
\* when records were assembled and the last chunk that had a choice carried
\* the finish reason tool_calls: chunks with an empty choice list after it do
\* not matter, and a finish reason tool_calls seen before a later choice with
\* another or no finish reason does not count.
C34_LastChoiceDecides ==
    (sp.pc = "done" /\ sp.result.err = NilErr) =>
        (sp.result.toolCalls # <<>>
            <=> (sp.lastReason = "tool_calls" /\ DOMAIN sp.toolCallsMap # {}))

\* A record was assembled, a choice with finish reason tool_calls arrived, and
\* a later choice without finish reason followed it: no tool call is returned.
C34_Witness ==
    /\ sp.pc = "done" /\ sp.result.err = NilErr
    /\ 0 \in DOMAIN sp.toolCallsMap /\ sp.pending[0] = <<>>
    /\ sp.arrived = <<Chunk("", "", "tool_calls"), Chunk("a", "", "")>>
    /\ sp.trail > 0
    /\ sp.result.toolCalls = <<>>

-----------------------------------------------------------------------------
(* Engine.Chat with a small cap configured and autonomous mode on or off.  *)

NoCapInit ==
    /\ \E c \in 1..MaxIterBound :
        e = Registered([UnsetConfig(TRUE) EXCEPT !.MaxRetries = 1, !.MaxAutonomousIter = c])
    /\ opts \in [Autonomous : BOOLEAN]
    /\ messages = ShortSeed
    /\ seed = ShortSeed
    /\ cancelled = FALSE
    /\ pc = "start"
    /\ iteration = 0
    /\ rpc = "idle" /\ attempt = 0 /\ lastErr = NilErr /\ runner = NewRunner
    /\ toolCalls = <<>> /\ gstate = <<>> /\ results = <<>>
    /\ order = <<>> /\ produced = <<>>
    /\ ret = NotReturned
    /\ turns = <<>> /\ outs = <<>> /\ invoked = {} /\ hist = NewHist
    /\ xt = NoUnit /\ sp = NoUnit /\ cc = NoUnit /\ NoLate

NoCapSpec == NoCapInit /\ [][Next]_vars

\* C33: with autonomous mode off Chat returns only with the error of the
\* request runner or after a turn without tool calls, whose text it returns;
\* so as long as every turn requests tools and no request fails it has not
\* returned, however many passes it has made.
C33_NoCapWithoutAutonomous ==
    (~opts.Autonomous /\ ret.returned) =>
        \/ ret.err # NilErr
        \/ /\ turns # <<>>
           /\ turns[Len(turns)].toolCalls = NoCalls
           /\ ret.text = turns[Len(turns)].content

\* Autonomous mode is off and Chat is at work in a pass beyond the configured
\* cap, after turns that all requested tools.
C33_Witness ==
    /\ ~opts.Autonomous /\ ~ret.returned
    /\ iteration > e.maxAutonomousIter
    /\ Len(turns) > e.maxAutonomousIter
    /\ \A k \in 1..Len(turns) : turns[k].toolCalls # NoCalls
    /\ pc = "request"

\* C35: an assistant message of the log that carries tool calls has empty
\* content, and the text of a turn that also requested tools is in no message
\* of the log and is not the text Chat returns.
C35_ToolTurnTextDropped ==
    /\ \A j \in 1..Len(messages) :
        (j > Len(seed) /\ messages[j].toolCalls # NoCalls) => messages[j].content = ""
    /\ \A k \in 1..Len(turns) :
        (turns[k].toolCalls # NoCalls /\ turns[k].content # "") =>
            /\ \A j \in 1..Len(messages) : messages[j].content # turns[k].content
            /\ ret.text # turns[k].content

\* A turn with the text "note" and a tool call, then a turn of text only, and
\* Chat returned.
C35_Witness ==
    /\ ret.returned /\ ret.err = NilErr
    /\ Len(turns) = 2
    /\ turns[1].content = "note" /\ turns[1].toolCalls # NoCalls
    /\ ret.text = "done"

\* C36 as claimed: for each call of a finished batch one completion
\* notification was delivered, in request order: OnToolResult with the result
\* text when the call succeeded, OnToolError with the error text when it
\* failed, in both cases under the tool name that OnToolCall was given for
\* that call.
C36_Original ==
    \A b \in 1..Len(outs) :
        LET o == outs[b]
        IN  /\ Len(o.notified) = Len(o.announced)
            /\ \A i \in 1..Len(o.notified) :
                /\ o.notified[i].observer =
                        (IF o.produced[i].isError THEN "OnToolError" ELSE "OnToolResult")
                /\ o.notified[i].text = o.produced[i].output
                /\ o.notified[i].name = o.announced[i].name

-----------------------------------------------------------------------------
(* Engine.chat while the host program switches provider: SetClient and     *)
(* then SetModel, one switch after the other.  Client and model are        *)
(* numbered by the switch that set them, 0 for those given to New.         *)

\* The host calls the next operation of a switch.
SwitchCall ==
    /\ lk.hpc = "idle" /\ lk.calls < 2 * MaxHostCalls
    /\ lk' = [lk EXCEPT !.hop = IF lk.client = lk.model THEN "SetClient" ELSE "SetModel",
                        !.calls = @ + 1,
                        !.hpc = "lock"]
    /\ UNCHANGED <<e, guardOthers>>

SwitchNext ==
    \/ GuardChatLock \/ GuardChatReadModel \/ GuardChatUnlock
    \/ GuardChatReadClient \/ GuardChatReadTools \/ GuardChatRetry \/ GuardChatLookup
    \/ SwitchCall \/ GuardHostLock \/ GuardHostWrite \/ GuardHostUnlock

SwitchSpec == GuardInit /\ [][SwitchNext]_vars

\* C38 as claimed: every request of the runner pairs the client and the model
\* of the same switch.
C38_Original ==
    \A i \in 1..Len(lk.reqs) : lk.reqs[i].client = lk.reqs[i].model

-----------------------------------------------------------------------------
(* The STDIO loop of the CLI (runSTDIOMode): one request per line of       *)
(* standard input, in the line-delimited or the JSON-RPC form, answered    *)
(* by lines on standard output.  A chat request runs Engine.Chat with an   *)
(* OnContent observer, against a provider that answers with text; the      *)
(* engine retries a failed attempt once.                                   *)

MaxLines == 2

stdioOthers == <<e, chatAll, xt, cc, lk, il, tm, nw, ap, mm>>

\* What a line of input can be.  blank: empty once trimmed; long: longer than
\* the scanner's token limit (bufio.MaxScanTokenSize); invalid: not a JSON
\* object; the rpc forms have a "jsonrpc" member: rpc_parse does not fit
\* JSONRPCRequest, rpc_method names another method than chat, rpc_params has
\* params that do not fit ChatRequest; plain_bad does not fit ChatRequest.
Line(form, stream) == [form |-> form, stream |-> stream]

Lines ==
    { Line(f, FALSE) : f \in {"blank", "long", "invalid", "rpc_parse", "rpc_method",
                              "rpc_params", "plain_bad"} }
        \cup { Line(f, str) : f \in {"rpc_chat", "plain_chat"}, str \in BOOLEAN }

IsChat(ln) == ln.form \in {"rpc_chat", "plain_chat"}

\* ChatResponse, written by writeLine or inside a JSON-RPC result; a JSON-RPC
\* error carries its message.
Response(jsonrpc, content, done, error) ==
    [rpc |-> jsonrpc, content |-> content, done |-> done, error |-> error]

\* The response to a line that is not a chat request.
Rejection(ln) ==
    CASE ln.form = "invalid"    -> Response(FALSE, "", FALSE, "Invalid JSON")
      [] ln.form = "plain_bad"  -> Response(FALSE, "", FALSE, "Invalid request")
      [] ln.form = "rpc_parse"  -> Response(TRUE, "", FALSE, "Parse error")
      [] ln.form = "rpc_method" -> Response(TRUE, "", FALSE, "Method not found")
      [] ln.form = "rpc_params" -> Response(TRUE, "", FALSE, "Invalid params")

\* The choices of the streams the provider answers with.
StdioChunks == { Chunk("a", "", ""), Chunk("b", "", ""), Chunk("", "t", "") }

StdioInit ==
    /\ NoChat
    /\ e = New([UnsetConfig(FALSE) EXCEPT !.MaxRetries = 1])
    /\ io = [pc |-> "scan", lines |-> 0, line |-> Line("blank", FALSE), out |-> <<>>,
             served |-> FALSE, err |-> NilErr, text |-> ""]
    /\ sp = NoUnit
    /\ xt = NoUnit /\ cc = NoUnit
    /\ lk = NoUnit /\ il = NoUnit /\ tm = NoUnit /\ nw = NoUnit
    /\ ap = NoUnit /\ mm = NoUnit

\* scanner.Scan() and the dispatch of the line, up to the call of eng.Chat.
\* A line longer than the token limit makes Scan return false with
\* bufio.ErrTooLong, which runSTDIOMode returns: pc is "failed".
StdioScan ==
    /\ io.pc = "scan" /\ io.lines < MaxLines
    /\ \E ln \in Lines :
        /\ io' = [io EXCEPT
                    !.lines = @ + 1, !.line = ln, !.served = FALSE,
                    !.err = NilErr, !.text = "",
                    !.out = IF IsChat(ln) \/ ln.form \in {"blank", "long"} THEN <<>>
                            ELSE <<Rejection(ln)>>,
                    !.pc = IF IsChat(ln) THEN "chat"
                           ELSE IF ln.form = "long" THEN "failed" ELSE "scan"]
        /\ sp' = IF IsChat(ln) THEN NewStream(NoMap) ELSE sp
    /\ UNCHANGED stdioOthers

\* scanner.Scan() returns false at the end of standard input.
StdioEOF ==
    /\ io.pc = "scan"
    /\ io' = [io EXCEPT !.pc = "end"]
    /\ UNCHANGED <<sp, stdioOthers>>

\* Engine.chat: the attempt failed, lastErr = err; continue.  The next attempt
\* reads a new stream with a new fullContent; the observer is the same.
StdioRetry ==
    /\ io.pc = "chat" /\ sp.pc = "done" /\ sp.result.err # NilErr
    /\ sp.attempt < e.maxRetries
    /\ sp' = [NewStream(NoMap) EXCEPT !.attempt = sp.attempt + 1,
                                      !.chunks = sp.chunks,
                                      !.onContent = sp.onContent,
                                      !.onReasoning = sp.onReasoning]
    /\ UNCHANGED <<io, stdioOthers>>

\* The responses of streamChat and completeChat once eng.Chat has returned err.
ChatResponses(ln, observed, err) ==
    LET jsonrpc == ln.form = "rpc_chat"
    IN  IF ln.stream
        THEN [i \in 1..Len(observed) |-> Response(jsonrpc, observed[i], FALSE, "")]
                \o <<IF err = NilErr THEN Response(jsonrpc, "", TRUE, "")
                     ELSE Response(jsonrpc, "", FALSE, IF jsonrpc THEN "Chat error" ELSE err.msg)>>
        ELSE <<IF err = NilErr THEN Response(jsonrpc, Concat(observed), TRUE, "")
               ELSE Response(jsonrpc, "", FALSE, IF jsonrpc THEN "Chat error" ELSE err.msg)>>

\* eng.Chat returns: the text of the turn, or the error of the exhausted runner.
StdioChatEnd ==
    /\ io.pc = "chat" /\ sp.pc = "done"
    /\ sp.result.err # NilErr => sp.attempt >= e.maxRetries
    /\ LET err == IF sp.result.err = NilErr THEN NilErr
                  ELSE ExhaustedErr(e, sp.result.err)
       IN  io' = [io EXCEPT !.pc = "scan", !.served = TRUE, !.err = err,
                            !.text = sp.result.content,
                            !.out = ChatResponses(io.line, sp.onContent, err)]
    /\ sp' = NoUnit
    /\ UNCHANGED stdioOthers

StdioNext ==
    \/ StdioScan
    \/ StdioEOF
    \/ \E c \in StdioChunks : StreamText(c)
    \/ StreamEOF
    \/ StreamFails
    \/ StdioRetry
    \/ StdioChatEnd

StdioSpec == StdioInit /\ [][StdioNext]_vars

\* The line read last has been dealt with.
LineDone == io.lines > 0 /\ io.pc \in {"scan", "end", "failed"}

IsContent(r)  == ~r.done /\ r.error = ""
IsTerminal(r) == r.done \/ r.error # ""

\* What C32 asks of the responses out to one line.
Answered(out, failed) ==
    /\ out # <<>>
    /\ \A i \in 1..(Len(out) - 1) : IsContent(out[i])
    /\ LET last == out[Len(out)]
       IN  IF failed THEN ~last.done /\ last.error # ""
           ELSE last.done /\ last.error = ""

\* C32 as claimed: every line that is not blank is answered by content
\* responses followed by exactly one terminal response, done when the chat
\* succeeded and an error otherwise; a line that is not valid JSON and a
\* JSON-RPC line with another method get one error response and the loop
\* reads on.
C32_Original ==
    (LineDone /\ io.line.form # "blank") =>
        /\ Answered(io.out, ~IsChat(io.line) \/ io.err # NilErr)
        /\ io.line.form \in {"invalid", "rpc_method"} =>
                Len(io.out) = 1 /\ io.pc # "failed"

\* C37 as claimed: the content of the response to a chat request that is not
\* streamed and succeeded is the text of the attempt that succeeded.
C37_Original ==
    (LineDone /\ IsChat(io.line) /\ ~io.line.stream /\ io.err = NilErr) =>
        io.out[Len(io.out)].content = io.text

-----------------------------------------------------------------------------
(* The approval of plugin tools in the CLI (executeTool of main.go): the   *)
(* calls of one batch run as goroutines of executeToolsConcurrently, each  *)
(* looking its tool up in the approvals of the working directory, asking   *)
(* the user when it is absent, and recording the approval.  Nothing        *)
(* serializes the goroutines.                                              *)

approvalOthers == <<e, chatAll, xt, sp, cc, lk, il, tm, nw, io, mm>>

\* The tools registered in the CLI: "fetch" and "shell" are plugins that are
\* not marked safe, "info" is marked safe; "ghost" is not registered.
CliTools   == {"fetch", "shell", "info"}
CliSafe    == {"info"}
CliCalled  == CliTools \cup {"ghost"}

\* executeTool's test before the handler: is the user to be asked?
NeedsApproval(skip, approved, name) ==
    ~skip /\ name \notin CliSafe /\ name \notin approved

\* How often name occurs in the sequence s.
Times(s, name) == Cardinality({ i \in 1..Len(s) : s[i] = name })

ApprovalInit ==
    /\ NoChat
    /\ e = New(UnsetConfig(FALSE))
    /\ \E n \in 2..MaxBatch, skip \in BOOLEAN, approved \in SUBSET {"fetch"} :
        \E calls \in [1..n -> CliCalled] :
            ap = [pc |-> "batch", calls |-> calls, skipApproval |-> skip,
                  approved |-> approved, first |-> approved,
                  at |-> [i \in 1..n |-> "lookup"],
                  plugins |-> [i \in 1..n |-> {}],
                  asked |-> <<>>,
                  output |-> [i \in 1..n |-> ""],
                  msgs |-> <<>>]
    /\ xt = NoUnit /\ sp = NoUnit /\ cc = NoUnit
    /\ lk = NoUnit /\ il = NoUnit /\ tm = NoUnit /\ nw = NoUnit
    /\ io = NoUnit /\ mm = NoUnit

ApRunning(i) == ap.pc = "batch" /\ i \in 1..Len(ap.calls)

\* toolFuncs[name], toolMeta[name] and isPluginApproved.
ApLookup(i) ==
    /\ ApRunning(i) /\ ap.at[i] = "lookup"
    /\ LET name == ap.calls[i]
       IN  ap' = IF name \notin CliTools
                 THEN [ap EXCEPT !.at[i] = "done", !.output[i] = "Unknown tool"]
                 ELSE IF NeedsApproval(ap.skipApproval, ap.approved, name)
                 THEN [ap EXCEPT !.at[i] = "ask"]
                 ELSE [ap EXCEPT !.at[i] = "run"]
    /\ UNCHANGED approvalOthers

\* requestApproval: the user is shown the tool and answers.
ApAsk(i) ==
    /\ ApRunning(i) /\ ap.at[i] = "ask"
    /\ \E yes \in BOOLEAN :
        ap' = IF yes
              THEN [ap EXCEPT !.asked = Append(@, ap.calls[i]), !.at[i] = "add"]
              ELSE [ap EXCEPT !.asked = Append(@, ap.calls[i]), !.at[i] = "done",
                              !.output[i] = "Error: Plugin not approved by user"]
    /\ UNCHANGED approvalOthers

\* addPluginApproval reads approvals.Directories[workDir] ...
ApAddRead(i) ==
    /\ ApRunning(i) /\ ap.at[i] = "add"
    /\ ap' = [ap EXCEPT !.plugins[i] = ap.approved, !.at[i] = "write"]
    /\ UNCHANGED approvalOthers

\* ... and stores the list with the name appended; saveApprovalRecords.
ApAddWrite(i) ==
    /\ ApRunning(i) /\ ap.at[i] = "write"
    /\ ap' = [ap EXCEPT !.approved = ap.plugins[i] \cup {ap.calls[i]}, !.at[i] = "run"]
    /\ UNCHANGED approvalOthers

\* fn(ctx, arguments): the handler answers or fails.
ApRun(i) ==
    /\ ApRunning(i) /\ ap.at[i] = "run"
    /\ \E ok \in BOOLEAN :
        ap' = [ap EXCEPT !.at[i] = "done",
                         !.output[i] = IF ok THEN "ok" ELSE "Error: failed"]
    /\ UNCHANGED approvalOthers

\* wg.Wait() and the messages of the batch, in the order of the calls.
ApJoin ==
    /\ ap.pc = "batch"
    /\ \A i \in 1..Len(ap.calls) : ap.at[i] = "done"
    /\ ap' = [ap EXCEPT !.pc = "joined",
                        !.msgs = [i \in 1..Len(ap.calls) |->
                                    [toolCallID |-> i, content |-> ap.output[i]]]]
    /\ UNCHANGED approvalOthers

ApprovalNext ==
    \/ \E i \in 1..MaxBatch : ApLookup(i)
    \/ \E i \in 1..MaxBatch : ApAsk(i)
    \/ \E i \in 1..MaxBatch : ApAddRead(i)
    \/ \E i \in 1..MaxBatch : ApAddWrite(i)
    \/ \E i \in 1..MaxBatch : ApRun(i)
    \/ ApJoin

ApprovalSpec == ApprovalInit /\ [][ApprovalNext]_vars

\* C39 as claimed: when a batch has two or more calls of one tool that is
\* not safe and not yet approved for the working directory, the user is
\* asked at most once for that tool in the batch, in every interleaving.
C39_Original ==
    \A name \in CliTools \ CliSafe :
        (Times(ap.calls, name) >= 2 /\ name \notin ap.first) =>
            Times(ap.asked, name) <= 1

-----------------------------------------------------------------------------
(* The memory store of the CLI: setMemory and deleteMemory update the map  *)
(* under memoryMu and then call saveMemory, which encodes the map under    *)
(* the read lock and writes the file after releasing it.                   *)

MaxWriters == 2

memoryOthers == <<e, chatAll, xt, sp, cc, lk, il, tm, nw, io, ap>>

MemKeys   == {"key", "lang"}
MemValues == {"v", "w"}
NoEntry   == "-"

\* The calls: setMemory(key, value) and deleteMemory(key).
MemOps ==
    { [op |-> "set", key |-> k, value |-> v] : k \in MemKeys, v \in MemValues }
        \cup { [op |-> "delete", key |-> k, value |-> NoEntry] : k \in {"key"} }

NoMemory == [k \in MemKeys |-> NoEntry]

\* The contents of memory.json: no file yet, a file of length zero (just
\* truncated), the encoding of a map, or bytes of two encodings mixed.
Encoded(data) == [kind |-> "json", data |-> data]
NoFile    == [kind |-> "none", data |-> NoMemory]
EmptyFile == [kind |-> "empty", data |-> NoMemory]
TornFile  == [kind |-> "torn", data |-> NoMemory]

MemoryInit ==
    /\ NoChat
    /\ e = New(UnsetConfig(FALSE))
    /\ \E n \in 1..MaxWriters :
        \E ops \in [1..n -> MemOps], had \in {NoEntry, "v"} :
            LET loaded == [NoMemory EXCEPT !["key"] = had]
            IN  mm = [pc |-> "calls", ops |-> ops,
                      memoryData |-> loaded,
                      file |-> IF had = NoEntry THEN NoFile ELSE Encoded(loaded),
                      at |-> [i \in 1..n |-> "update"],
                      data |-> [i \in 1..n |-> NoMemory]]
    /\ xt = NoUnit /\ sp = NoUnit /\ cc = NoUnit
    /\ lk = NoUnit /\ il = NoUnit /\ tm = NoUnit /\ nw = NoUnit
    /\ io = NoUnit /\ ap = NoUnit

MemRunning(i) == mm.pc = "calls" /\ i \in 1..Len(mm.ops)

\* setMemory / deleteMemory: the update of the map under memoryMu.
MemUpdate(i) ==
    /\ MemRunning(i) /\ mm.at[i] = "update"
    /\ mm' = [mm EXCEPT !.memoryData[mm.ops[i].key] = mm.ops[i].value,
                        !.at[i] = "marshal"]
    /\ UNCHANGED memoryOthers

\* saveMemory: json.MarshalIndent(memoryData) under the read lock.
MemMarshal(i) ==
    /\ MemRunning(i) /\ mm.at[i] = "marshal"
    /\ mm' = [mm EXCEPT !.data[i] = mm.memoryData, !.at[i] = "open"]
    /\ UNCHANGED memoryOthers

\* os.WriteFile opens the file with O_TRUNC ...
MemOpen(i) ==
    /\ MemRunning(i) /\ mm.at[i] = "open"
    /\ mm' = [mm EXCEPT !.file = EmptyFile, !.at[i] = "write"]
    /\ UNCHANGED memoryOthers

\* The file after data is written at offset 0 of a file holding old.
Overlay(old, data) ==
    IF old \in {EmptyFile, Encoded(data)} THEN {Encoded(data)}
    ELSE {Encoded(data), TornFile}

\* ... and writes data from offset 0, over what another writer has put there
\* since: if that is longer its tail stays.
MemWrite(i) ==
    /\ MemRunning(i) /\ mm.at[i] = "write"
    /\ \E f \in Overlay(mm.file, mm.data[i]) :
        mm' = [mm EXCEPT !.file = f, !.at[i] = "done"]
    /\ UNCHANGED memoryOthers

\* Every call has returned.
MemReturn ==
    /\ mm.pc = "calls"
    /\ \A i \in 1..Len(mm.ops) : mm.at[i] = "done"
    /\ mm' = [mm EXCEPT !.pc = "completed"]
    /\ UNCHANGED memoryOthers

MemoryNext ==
    \/ \E i \in 1..MaxWriters : MemUpdate(i)
    \/ \E i \in 1..MaxWriters : MemMarshal(i)
    \/ \E i \in 1..MaxWriters : MemOpen(i)
    \/ \E i \in 1..MaxWriters : MemWrite(i)
    \/ MemReturn

MemorySpec == MemoryInit /\ [][MemoryNext]_vars

\* C40 as claimed: after any set of concurrent setMemory and deleteMemory
\* calls has completed, the contents of the memory file equal the map in
\* memory.
C40_Original == mm.pc = "completed" => mm.file = Encoded(mm.memoryData)
====
